---- MODULE Spec2Model ----
(***************************************************************************)
(* Model of maro.rl.training.policy_manager.LocalPolicyManager: the        *)
(* constructor, on_experiences and get_state, first as whole calls made    *)
(* one after the other (Spec), then as interleaved threads that share one  *)
(* manager (SpecConc).                                                     *)
(***************************************************************************)
EXTENDS Integers, Sequences, FiniteSets, TLC

\* ------------------------------------------------------------------ bounds
MaxBatch == 2      \* largest ExperienceSet.size of a submitted batch
MaxMem == 3        \* cap on a policy's experience-memory size

\* ------------------------------------------------------------ identifiers
Policies == {"p", "q"}            \* keys of policy_dict
Unknown == "z"                    \* an identifier that is no key of policy_dict
AllIds == Policies \cup {Unknown}

\* What the manager looks at in a policy: hasattr(policy, "experience_memory"),
\* hasattr(policy, "update"); clears: whether the policy's own update routine
\* empties its experience memory (on-policy) or keeps it (off-policy).
OffPolicy == [mem |-> TRUE, upd |-> TRUE, clears |-> FALSE]
OnPolicy == [mem |-> TRUE, upd |-> TRUE, clears |-> TRUE]
MemOnly == [mem |-> TRUE, upd |-> FALSE, clears |-> FALSE]
NoMem == [mem |-> FALSE, upd |-> TRUE, clears |-> FALSE]

\* the policy_dict arguments tried
PolicyDicts ==
  { [p |-> OffPolicy, q |-> OffPolicy], [p |-> OnPolicy, q |-> OffPolicy],
    [p |-> OffPolicy, q |-> MemOnly], [p |-> OnPolicy, q |-> NoMem] }

\* PolicyUpdateTrigger(min_new_experiences, num_warmup_experiences)
PolicyUpdateTrigger(m, w) == [min_new_experiences |-> m, num_warmup_experiences |-> w]

\* the triggers tried: one that always holds, one where the warm-up binds,
\* one where the new-experience minimum binds, one where both do
Triggers ==
  { PolicyUpdateTrigger(0, 0), PolicyUpdateTrigger(1, 2),
    PolicyUpdateTrigger(2, 0), PolicyUpdateTrigger(2, 2) }

\* the trigger tried under the second key of a dict
OtherTrigger == PolicyUpdateTrigger(2, 2)

\* the constructor's update_trigger argument: None, one trigger, or a dict
\* A dict of triggers: its key set and the value under each key (the value
\* under an identifier that is no key is a filler and never read).
Filler == PolicyUpdateTrigger(0, 0)

TriggerDict(K, f) == [keys |-> K, of |-> [id \in AllIds |-> IF id \in K THEN f[id] ELSE Filler]]

EmptyDict == TriggerDict({}, [id \in AllIds |-> Filler])

TriggerDicts ==
  { TriggerDict(K, [id \in AllIds |-> IF id = "p" THEN t ELSE OtherTrigger]) :
      K \in SUBSET Policies, t \in Triggers }
    \cup { TriggerDict(K \cup {Unknown}, [id \in AllIds |-> OtherTrigger]) :
             K \in {{}, {"p"}} }

TriggerArgs ==
  {[kind |-> "none"]}
    \cup { [kind |-> "single", t |-> t] : t \in Triggers }
    \cup { [kind |-> "dict", d |-> d] : d \in TriggerDicts }

\* exp_by_policy: a dict in insertion order, as a sequence of <<policy_id, size>>.
\* Two known identifiers are tried in one order; the unknown identifier is
\* tried alone, and before and after a batch of one record.
Batches == Policies \X (0..MaxBatch)

Submissions ==
  {<<>>} \cup { <<a>> : a \in Batches }
    \cup { <<a, b>> : a \in {"p"} \X (0..MaxBatch), b \in {"q"} \X (0..MaxBatch) }
    \cup {<<<<Unknown, 1>>>>}
    \cup { <<<<id, 1>>, <<Unknown, 1>>>> : id \in Policies }
    \cup { <<<<Unknown, 1>>, <<id, 1>>>> : id \in Policies }

VARIABLES
  policy_dict,          \* constructor argument policy_dict
  trigger_arg,          \* constructor argument update_trigger
  status,               \* "new", "ready" (constructed) or "failed" (ValueError)
  attrs,                \* the instance attributes assigned so far
  names,                \* self._names
  update_trigger,       \* self._update_trigger
  mem,                  \* policy.experience_memory.size, per policy
  new_exp_counter,      \* self._new_exp_counter
  updated_policy_ids,   \* self._updated_policy_ids
  last,                 \* the last call: its name, what it updated or returned
  unreported,           \* history: the policies updated since the last get_state
  drains,               \* history: get_state calls since the last on_experiences (0, 1, 2+)
  thr                   \* SpecConc: each calling thread's position and locals

pmVars ==
  <<policy_dict, trigger_arg, status, attrs, names, update_trigger, mem,
    new_exp_counter, updated_policy_ids, last, unreported, drains>>

\* the asynchronous actor (rl/learning/asynchronous/actor.py) and its surroundings
VARIABLES
  num_steps,            \* argument num_steps
  num_episodes,         \* argument num_episodes
  eval_schedule,        \* argument eval_schedule, then the list built from it
  eval_env_wrapper,     \* argument eval_env_wrapper: "none", then "train" or "eval"
  a_pc,                 \* the actor's position in actor()
  policy_version,       \* local policy_version
  eval_point_index,     \* local eval_point_index
  ep,                   \* loop variable ep
  segment,              \* local segment
  steps_to_go,          \* local steps_to_go
  envs,                 \* the environment wrappers "train" and "eval"
  agent,                \* agent_wrapper: exploring or exploiting, policy state applied
  proxy,                \* the channel: "none", "open" or "closed"
  net,                  \* the messages in flight
  srv_version,          \* the policy server's version
  hist                  \* history: what the actor has sent, received and done

actorVars ==
  <<num_steps, num_episodes, eval_schedule, eval_env_wrapper, a_pc, policy_version,
    eval_point_index, ep, segment, steps_to_go, envs, agent, proxy, net,
    srv_version, hist>>

\* history of a scenario: the size and the outcome of each submission made
VARIABLE calls

\* the local job manager (maro/cli/local/job_manager.py)
VARIABLES
  max_running,          \* MAXRUNNING
  containerized,        \* CONTAINERIZE
  image,                \* image_exists(): the job image has been built
  JOB_DETAILS,          \* redis hash: job name -> details, NoEntry where there is none
  JOB_CONF,             \* redis hash: job name -> TRUE where the job has a configuration
  started,              \* started[job_name]: the job's processes
  sched,                \* the scheduling loop: position, snapshot, jobs still to start
  mon,                  \* the monitor threads: position and local variables
  removal               \* history: the jobs that were marked REMOVED

jmVars == <<max_running, containerized, image, JOB_DETAILS, JOB_CONF, started, sched, mon,
            removal>>

\* K8sAksExecutor.create (maro/cli/k8s/executors/k8s_aks_executor.py)
VARIABLES
  clusters,             \* the folders under ABS_MARO_CLUSTERS, by cluster name
  deployment,           \* the create_deployment argument
  k_pc,                 \* the step create() is at
  raised,               \* the exception create() has raised, "none" while it has not
  before                \* history: the folders as they were when create() was entered

aksVars == <<clusters, deployment, k_pc, raised, before>>

cli == <<jmVars, aksVars>>

vars == <<pmVars, thr, actorVars, calls, cli, cli>>

\* policy_version = None: no version has been adopted yet
NoVersion == -1

\* eval_schedule as passed: None, an int, or a list of episode numbers
ScheduleNone == [kind |-> "none", n |-> 0, l |-> <<>>]
IntSchedule(k) == [kind |-> "int", n |-> k, l |-> <<>>]
ListSchedule(l) == [kind |-> "list", n |-> 0, l |-> l]

\* an environment wrapper before its first reset: no state, nothing recorded.
\* left: the steps the episode still has; pending, gen: the experiences not yet
\* taken by get_experiences and the policy versions they were generated under
FreshEnv == [state |-> FALSE, step_index |-> 0, left |-> 0, pending |-> 0, gen |-> {}]

\* the agent wrapper before the actor touches it
FreshAgent == [mode |-> "init", state_version |-> NoVersion]

\* nothing sent, nothing received, no episode run
NoHistory ==
  [init_reqs |-> 0, collects |-> 0, dones |-> 0, sent |-> 0, seg_steps |-> 0,
   max_seen |-> NoVersion, last_reply |-> NoVersion,
   first_reply |-> NoVersion, live_start |-> FALSE, eps_run |-> 0, evals |-> 0,
   evaluated |-> {}]

\* the names of the jobs and of the clusters looked at
Jobs == {"j1", "j2"}
ClusterNames == {"c1", "c2"}

\* hget returns None: the hash has no entry for the job
NoEntry == [status |-> "NONE", error_message |-> "none"]

\* the monitor thread of a job that has not been started
NoMonitor == [pc |-> "none", error |-> FALSE, err_out |-> "none", running |-> FALSE,
              details |-> NoEntry]

\* the scheduling loop between two passes
BetweenPasses == [pc |-> "sleep", num_running |-> 0, pending |-> <<>>, todo |-> <<>>,
                  launched |-> 0]

\* the job manager before it runs: used where it is not looked at
JobsIdle ==
  /\ max_running = 1
  /\ containerized = FALSE
  /\ image = FALSE
  /\ JOB_DETAILS = [j \in Jobs |-> NoEntry]
  /\ JOB_CONF = [j \in Jobs |-> FALSE]
  /\ started = [j \in Jobs |-> "unset"]
  /\ sched = BetweenPasses
  /\ mon = [j \in Jobs |-> NoMonitor]
  /\ removal = {}

\* create() before it is called: used where it is not looked at
AksIdle ==
  /\ clusters = [c \in ClusterNames |-> "absent"]
  /\ deployment = [name |-> "c1", valid |-> TRUE]
  /\ k_pc = [at |-> "idle", failed |-> "none"]
  /\ raised = "none"
  /\ before = clusters

CliIdle == JobsIdle /\ AksIdle

\* the actor before actor() is entered: used where no actor runs
ActorIdle ==
  /\ num_steps = 1
  /\ num_episodes = 1
  /\ eval_schedule = ScheduleNone
  /\ eval_env_wrapper = "none"
  /\ a_pc = "idle"
  /\ policy_version = NoVersion
  /\ eval_point_index = 0
  /\ ep = 0
  /\ segment = 0
  /\ steps_to_go = 0
  /\ envs = [e \in {"train", "eval"} |-> FreshEnv]
  /\ agent = FreshAgent
  /\ proxy = "none"
  /\ net = {}
  /\ srv_version = 0
  /\ hist = NoHistory

\* the threads that call into one manager: two actors' on_experiences, one get_state
Actors == {"a1", "a2"}
Getters == {"g"}
Threads == Actors \cup Getters

IdleThread ==
  [pc |-> "idle", arg |-> <<>>, rest |-> <<>>, tmp |-> 0, rm |-> 0, todo |-> {},
   ran |-> {}, got |-> {}, n0 |-> 0]

\* ------------------------------------------------------------ constructor
\* mutant: the keys are asked to be a proper subset (< for <=)
TriggerKeysInvalid_Proper(arg, pd) ==
  arg.kind = "dict" /\ ~(arg.d.keys \subseteq DOMAIN pd /\ arg.d.keys # DOMAIN pd)

\* isinstance(update_trigger, dict) and not update_trigger.keys() <= policy_dict.keys()
TriggerKeysInvalid(arg, pd) ==
  arg.kind = "dict" /\ ~(arg.d.keys \subseteq DOMAIN pd)

\* mutant: having update is enough, experience_memory is not asked for
Updatable_AnyUpdate(pd) == { id \in DOMAIN pd : pd[id].upd }

\* self._updatable_policy_dict
Updatable(pd) == { id \in DOMAIN pd : pd[id].mem /\ pd[id].upd }

\* mutant: with update_trigger=None no trigger is registered at all
BuildTrigger_NoDefault(arg, pd) ==
  IF arg.kind = "none"
    THEN EmptyDict
    ELSE IF arg.kind = "dict"
      THEN arg.d
      ELSE TriggerDict(Updatable(pd), [id \in AllIds |-> arg.t])

\* self._update_trigger as the constructor builds it
BuildTrigger(arg, pd) ==
  IF arg.kind = "none"
    THEN TriggerDict(Updatable(pd), [id \in AllIds |-> PolicyUpdateTrigger(1, 1)])
    ELSE IF arg.kind = "dict"
      THEN arg.d
      ELSE TriggerDict(Updatable(pd), [id \in AllIds |-> arg.t])

\* list(policy_dict.keys()): the keys in the dict's order
KeyOrder == <<"p", "q">>

\* mutant: names lists the updatable policies only
KeyList_Updatable(pd) == SelectSeq(KeyOrder, LAMBDA id : id \in Updatable(pd))

KeyList(pd) == SelectSeq(KeyOrder, LAMBDA id : id \in DOMAIN pd)

NoCall == [op |-> "none", ids |-> {}, err |-> FALSE]

\* the attributes the constructor assigns
AllAttrs ==
  {"_names", "policy_dict", "_updatable_policy_dict", "_update_trigger",
   "_new_exp_counter", "_updated_policy_ids"}

Init ==
  /\ policy_dict \in PolicyDicts
  /\ trigger_arg \in TriggerArgs
  /\ status = "new"
  /\ attrs = {}
  /\ names = <<>>
  /\ update_trigger = EmptyDict
  /\ mem = [id \in Policies |-> 0]
  /\ new_exp_counter = [id \in Policies |-> 0]
  /\ updated_policy_ids = {}
  /\ last = NoCall
  /\ unreported = {}
  /\ drains = 0
  /\ thr = [t \in Threads |-> IdleThread]
  /\ calls = <<>>
  /\ CliIdle
  /\ ActorIdle

Construct ==
  /\ status = "new"
  /\ IF TriggerKeysInvalid(trigger_arg, policy_dict)
       THEN /\ status' = "failed"
            /\ last' = [op |-> "init", ids |-> {}, err |-> TRUE]
            /\ UNCHANGED <<attrs, names, update_trigger>>
       ELSE /\ status' = "ready"
            /\ names' = KeyList(policy_dict)
            /\ update_trigger' = BuildTrigger(trigger_arg, policy_dict)
            /\ attrs' = AllAttrs
            /\ last' = [op |-> "init", ids |-> {}, err |-> FALSE]
  /\ UNCHANGED <<policy_dict, trigger_arg, mem, new_exp_counter, updated_policy_ids,
                 unreported, drains, thr, actorVars, calls, cli, cli>>

\* --------------------------------------------------------- on_experiences
\* policy.experience_memory.put(exp): the memory grows by the batch
MemPut(m, size) == m + size

\* policy.update(): what is left in the policy's experience memory
MemAfterUpdate(kind, m) == IF kind.clears THEN 0 ELSE m

\* mutant: the counter is assigned the batch's size (= for +=)
RECURSIVE Absorb_CountAssigned(_, _, _, _)
Absorb_CountAssigned(pd, m, c, exp) ==
  IF exp = <<>>
    THEN [mem |-> m, cnt |-> c, err |-> FALSE]
    ELSE LET id == Head(exp)[1]
             size == Head(exp)[2]
         IN IF id \notin DOMAIN pd
              THEN [mem |-> m, cnt |-> c, err |-> TRUE]
              ELSE IF pd[id].mem
                THEN Absorb_CountAssigned(pd, [m EXCEPT ![id] = MemPut(@, size)],
                                          [c EXCEPT ![id] = size], Tail(exp))
                ELSE Absorb_CountAssigned(pd, m, c, Tail(exp))

\* mutant: the batch replaces what the memory held
RECURSIVE Absorb_PutReplaces(_, _, _, _)
Absorb_PutReplaces(pd, m, c, exp) ==
  IF exp = <<>>
    THEN [mem |-> m, cnt |-> c, err |-> FALSE]
    ELSE LET id == Head(exp)[1]
             size == Head(exp)[2]
         IN IF id \notin DOMAIN pd
              THEN [mem |-> m, cnt |-> c, err |-> TRUE]
              ELSE IF pd[id].mem
                THEN Absorb_PutReplaces(pd, [m EXCEPT ![id] = size],
                                        [c EXCEPT ![id] = @ + size], Tail(exp))
                ELSE Absorb_PutReplaces(pd, m, c, Tail(exp))

\* the first loop: count and store every batch, in the dict's order;
\* self.policy_dict[policy_id] raises KeyError at an unknown identifier
RECURSIVE Absorb(_, _, _, _)
Absorb(pd, m, c, exp) ==
  IF exp = <<>>
    THEN [mem |-> m, cnt |-> c, err |-> FALSE]
    ELSE LET id == Head(exp)[1]
             size == Head(exp)[2]
         IN IF id \notin DOMAIN pd
              THEN [mem |-> m, cnt |-> c, err |-> TRUE]
              ELSE IF pd[id].mem
                THEN Absorb(pd, [m EXCEPT ![id] = MemPut(@, size)],
                            [c EXCEPT ![id] = @ + size], Tail(exp))
                ELSE Absorb(pd, m, c, Tail(exp))

\* mutant: either threshold is enough (or for and)
ShouldUpdate_Either(id, trig, m, c) ==
  \/ id \notin trig.keys
  \/ m[id] >= trig.of[id].num_warmup_experiences
  \/ c[id] >= trig.of[id].min_new_experiences

\* mutant: a policy with no trigger is updated only when its memory is not empty
ShouldUpdate_NonEmpty(id, trig, m, c) ==
  \/ id \notin trig.keys /\ m[id] > 0
  \/ /\ id \in trig.keys
     /\ m[id] >= trig.of[id].num_warmup_experiences
     /\ c[id] >= trig.of[id].min_new_experiences

\* the condition of the second loop
ShouldUpdate(id, trig, m, c) ==
  \/ id \notin trig.keys
  \/ /\ m[id] >= trig.of[id].num_warmup_experiences
     /\ c[id] >= trig.of[id].min_new_experiences

\* mutant: once one policy is due, every updatable policy is updated
UpdatedBy_Together(pd, trig, m, c) ==
  IF \E id \in Updatable(pd) : ShouldUpdate(id, trig, m, c) THEN Updatable(pd) ELSE {}

\* the policies the second loop updates
UpdatedBy(pd, trig, m, c) == { id \in Updatable(pd) : ShouldUpdate(id, trig, m, c) }

\* self._new_exp_counter[policy_id] = 0
CounterAfterUpdate(c) == 0

\* mutant: the second loop replaces the set of updated policies
UpdateLoop_Replaces(pd, trig, a, updated) ==
  LET U == IF a.err THEN {} ELSE UpdatedBy(pd, trig, a.mem, a.cnt)
  IN [mem |-> [id \in DOMAIN pd |->
                 IF id \in U THEN MemAfterUpdate(pd[id], a.mem[id]) ELSE a.mem[id]],
      cnt |-> [id \in DOMAIN pd |->
                 IF id \in U THEN CounterAfterUpdate(a.cnt[id]) ELSE a.cnt[id]],
      updated |-> U,
      ran |-> U,
      err |-> a.err]

\* mutant: the second loop runs even after a KeyError in the first
UpdateLoop_IgnoresError(pd, trig, a, updated) ==
  LET U == UpdatedBy(pd, trig, a.mem, a.cnt)
  IN [mem |-> [id \in DOMAIN pd |->
                 IF id \in U THEN MemAfterUpdate(pd[id], a.mem[id]) ELSE a.mem[id]],
      cnt |-> [id \in DOMAIN pd |->
                 IF id \in U THEN CounterAfterUpdate(a.cnt[id]) ELSE a.cnt[id]],
      updated |-> updated \cup U,
      ran |-> U,
      err |-> a.err]

\* the second loop, run on what the first loop left (not run after a KeyError)
UpdateLoop(pd, trig, a, updated) ==
  LET U == IF a.err THEN {} ELSE UpdatedBy(pd, trig, a.mem, a.cnt)
  IN [mem |-> [id \in DOMAIN pd |->
                 IF id \in U THEN MemAfterUpdate(pd[id], a.mem[id]) ELSE a.mem[id]],
      cnt |-> [id \in DOMAIN pd |->
                 IF id \in U THEN CounterAfterUpdate(a.cnt[id]) ELSE a.cnt[id]],
      updated |-> updated \cup U,
      ran |-> U,
      err |-> a.err]

OnExperiences(exp) ==
  /\ status = "ready"
  /\ LET a == Absorb(policy_dict, mem, new_exp_counter, exp)
         r == UpdateLoop(policy_dict, update_trigger, a, updated_policy_ids)
     IN /\ \A id \in Policies : a.mem[id] <= MaxMem
        /\ mem' = r.mem
        /\ new_exp_counter' = r.cnt
        /\ updated_policy_ids' = r.updated
        /\ last' = [op |-> "on_experiences", ids |-> r.ran, err |-> r.err]
        /\ unreported' = unreported \cup r.ran
        /\ drains' = 0
  /\ UNCHANGED <<policy_dict, trigger_arg, status, attrs, names, update_trigger, thr, actorVars, calls, cli, cli>>

\* -------------------------------------------------------------- get_state
\* mutant: the state of every policy is returned
StateKeys_All(updated) == Policies

\* the keys of the returned policy_state_dict
StateKeys(updated) == updated

\* mutant: one identifier is removed, not all
Cleared_One(updated) ==
  IF updated = {} THEN {} ELSE updated \ {CHOOSE id \in updated : TRUE}

\* self._updated_policy_ids.clear()
Cleared(updated) == {}

GetState ==
  /\ status = "ready"
  /\ last' = [op |-> "get_state", ids |-> StateKeys(updated_policy_ids), err |-> FALSE]
  /\ updated_policy_ids' = Cleared(updated_policy_ids)
  /\ unreported' = {}
  /\ drains' = IF drains = 0 THEN 1 ELSE 2
  /\ UNCHANGED <<policy_dict, trigger_arg, status, attrs, names, update_trigger, mem,
                 new_exp_counter, thr, actorVars, calls, cli, cli>>

Submit == \E exp \in Submissions : OnExperiences(exp)

Next == Construct \/ Submit \/ GetState

Spec == Init /\ [][Next]_vars

\* ------------------------------------------------- calls from several threads
\* The manager takes no lock, so calls made from several threads interleave
\* between the reads and writes of the manager's attributes.

\* the manager as the constructor leaves it, for the arguments tried here
ConcPolicyDicts == { [p |-> OffPolicy, q |-> NoMem], [p |-> OnPolicy, q |-> OffPolicy] }

ConcTriggerArgs ==
  { [kind |-> "none"], [kind |-> "single", t |-> PolicyUpdateTrigger(2, 0)] }

ConcSubmissions == { <<<<"p", n>>>> : n \in 1..MaxBatch }

InitConc ==
  /\ policy_dict \in ConcPolicyDicts
  /\ trigger_arg \in ConcTriggerArgs
  /\ status = "ready"
  /\ attrs = AllAttrs
  /\ names = KeyList(policy_dict)
  /\ update_trigger = BuildTrigger(trigger_arg, policy_dict)
  /\ mem = [id \in Policies |-> 0]
  /\ new_exp_counter = [id \in Policies |-> 0]
  /\ updated_policy_ids = {}
  /\ last = [op |-> "init", ids |-> {}, err |-> FALSE]
  /\ unreported = {}
  /\ drains = 0
  /\ thr = [t \in Threads |-> IdleThread]
  /\ calls = <<>>
  /\ CliIdle
  /\ ActorIdle

config == <<policy_dict, trigger_arg, status, attrs, names, update_trigger>>
history == <<last, unreported, drains>>

\* on_experiences is entered with exp_by_policy = exp
Call(t, exp) ==
  /\ t \in Actors /\ thr[t].pc = "idle"
  /\ thr' = [thr EXCEPT ![t] = [@ EXCEPT !.pc = "absorb", !.arg = exp, !.rest = exp]]
  /\ UNCHANGED <<config, history, actorVars, calls, cli, mem, new_exp_counter, updated_policy_ids>>

\* first loop, next item: look the policy up and read its counter
AbsorbRead(t) ==
  /\ thr[t].pc = "absorb"
  /\ IF thr[t].rest = <<>>
       THEN thr' = [thr EXCEPT ![t] = [@ EXCEPT !.pc = "check",
                                                !.todo = Updatable(policy_dict)]]
       ELSE LET id == Head(thr[t].rest)[1]
            IN IF id \notin DOMAIN policy_dict
                 THEN thr' = [thr EXCEPT ![t] = [@ EXCEPT !.pc = "raised"]]
                 ELSE IF policy_dict[id].mem
                   THEN thr' = [thr EXCEPT ![t] = [@ EXCEPT !.pc = "store",
                                                   !.tmp = new_exp_counter[id]]]
                   ELSE thr' = [thr EXCEPT ![t] = [@ EXCEPT !.rest = Tail(@)]]
  /\ UNCHANGED <<config, history, actorVars, calls, cli, mem, new_exp_counter, updated_policy_ids>>

\* self._new_exp_counter[policy_id] += exp.size: the store of the sum
AbsorbStore(t) ==
  /\ thr[t].pc = "store"
  /\ LET id == Head(thr[t].rest)[1]
         size == Head(thr[t].rest)[2]
     IN new_exp_counter' = [new_exp_counter EXCEPT ![id] = thr[t].tmp + size]
  /\ thr' = [thr EXCEPT ![t] = [@ EXCEPT !.pc = "put"]]
  /\ UNCHANGED <<config, history, actorVars, calls, cli, mem, updated_policy_ids>>

\* policy.experience_memory.put(exp)
AbsorbPut(t) ==
  /\ thr[t].pc = "put"
  /\ LET id == Head(thr[t].rest)[1]
         size == Head(thr[t].rest)[2]
     IN mem' = [mem EXCEPT ![id] = MemPut(@, size)]
  /\ thr' = [thr EXCEPT ![t] = [@ EXCEPT !.pc = "absorb", !.rest = Tail(@)]]
  /\ UNCHANGED <<config, history, actorVars, calls, cli, new_exp_counter, updated_policy_ids>>

\* the next policy of the second loop, in the dict's order
NextTodo(todo) == CHOOSE id \in todo : \A other \in todo :
                    \E i, j \in 1..Len(KeyOrder) :
                      KeyOrder[i] = id /\ KeyOrder[j] = other /\ i <= j

\* second loop, next policy: read its memory size
CheckRead(t) ==
  /\ thr[t].pc = "check"
  /\ IF thr[t].todo = {}
       THEN thr' = [thr EXCEPT ![t] = [@ EXCEPT !.pc = "done"]]
       ELSE thr' = [thr EXCEPT ![t] = [@ EXCEPT !.pc = "decide",
                                                !.rm = mem[NextTodo(thr[t].todo)]]]
  /\ UNCHANGED <<config, history, actorVars, calls, cli, mem, new_exp_counter, updated_policy_ids>>

\* read the counter and take the decision
Decide(t) ==
  /\ thr[t].pc = "decide"
  /\ LET id == NextTodo(thr[t].todo)
     IN IF ShouldUpdate(id, update_trigger, [i \in Policies |-> thr[t].rm],
                        new_exp_counter)
          THEN thr' = [thr EXCEPT ![t] = [@ EXCEPT !.pc = "update"]]
          ELSE thr' = [thr EXCEPT ![t] = [@ EXCEPT !.pc = "check", !.todo = @ \ {id}]]
  /\ UNCHANGED <<config, history, actorVars, calls, cli, mem, new_exp_counter, updated_policy_ids>>

\* policy.update()
RunUpdate(t) ==
  /\ thr[t].pc = "update"
  /\ LET id == NextTodo(thr[t].todo)
     IN mem' = [mem EXCEPT ![id] = MemAfterUpdate(policy_dict[id], @)]
  /\ thr' = [thr EXCEPT ![t] = [@ EXCEPT !.pc = "reset"]]
  /\ UNCHANGED <<config, history, actorVars, calls, cli, new_exp_counter, updated_policy_ids>>

\* self._new_exp_counter[policy_id] = 0
ResetCounter(t) ==
  /\ thr[t].pc = "reset"
  /\ LET id == NextTodo(thr[t].todo)
     IN new_exp_counter' = [new_exp_counter EXCEPT ![id] = CounterAfterUpdate(@)]
  /\ thr' = [thr EXCEPT ![t] = [@ EXCEPT !.pc = "add"]]
  /\ UNCHANGED <<config, history, actorVars, calls, cli, mem, updated_policy_ids>>

\* self._updated_policy_ids.add(policy_id)
AddUpdated(t) ==
  /\ thr[t].pc = "add"
  /\ LET id == NextTodo(thr[t].todo)
     IN /\ updated_policy_ids' = updated_policy_ids \cup {id}
        /\ thr' = [thr EXCEPT ![t] = [@ EXCEPT !.pc = "check", !.todo = @ \ {id},
                                               !.ran = @ \cup {id}]]
  /\ UNCHANGED <<config, history, actorVars, calls, cli, mem, new_exp_counter>>

\* get_state is entered: the comprehension starts to iterate the set
GetBegin(t) ==
  /\ t \in Getters /\ thr[t].pc = "idle"
  /\ thr' = [thr EXCEPT ![t] = [@ EXCEPT !.pc = "iter",
                                         !.n0 = Cardinality(updated_policy_ids)]]
  /\ UNCHANGED <<config, history, actorVars, calls, cli, mem, new_exp_counter, updated_policy_ids>>

\* one step of the iteration: a set whose size changed raises RuntimeError,
\* else the next identifier's state is fetched, or the iteration ends
GetIter(t) ==
  /\ thr[t].pc = "iter"
  /\ IF Cardinality(updated_policy_ids) # thr[t].n0
       THEN thr' = [thr EXCEPT ![t] = [@ EXCEPT !.pc = "raised"]]
       ELSE IF updated_policy_ids \subseteq thr[t].got
         THEN thr' = [thr EXCEPT ![t] = [@ EXCEPT !.pc = "clear"]]
         ELSE \E id \in updated_policy_ids \ thr[t].got :
                thr' = [thr EXCEPT ![t] = [@ EXCEPT !.got = @ \cup {id}]]
  /\ UNCHANGED <<config, history, actorVars, calls, cli, mem, new_exp_counter, updated_policy_ids>>

\* self._updated_policy_ids.clear(), then the mapping built is returned
GetClear(t) ==
  /\ thr[t].pc = "clear"
  /\ updated_policy_ids' = Cleared(updated_policy_ids)
  /\ thr' = [thr EXCEPT ![t] = [@ EXCEPT !.pc = "done"]]
  /\ UNCHANGED <<config, history, actorVars, calls, cli, mem, new_exp_counter>>

NextConc ==
  \E t \in Threads :
    \/ \E exp \in ConcSubmissions : Call(t, exp)
    \/ AbsorbRead(t)
    \/ AbsorbStore(t)
    \/ AbsorbPut(t)
    \/ CheckRead(t)
    \/ Decide(t)
    \/ RunUpdate(t)
    \/ ResetCounter(t)
    \/ AddUpdated(t)
    \/ GetBegin(t)
    \/ GetIter(t)
    \/ GetClear(t)

SpecConc == InitConc /\ [][NextConc]_vars

\* ================================================================ claims
\* the size of the batch a submission holds for a policy (0 when it holds none)
RECURSIVE SizeFor(_, _)
SizeFor(exp, id) ==
  IF exp = <<>> THEN 0
  ELSE (IF Head(exp)[1] = id THEN Head(exp)[2] ELSE 0) + SizeFor(Tail(exp), id)

\* the size of the batch for a policy that the first loop reaches, which stops
\* at the first identifier that is no key of policy_dict
RECURSIVE SizeReached(_, _)
SizeReached(exp, id) ==
  IF exp = <<>> \/ Head(exp)[1] \notin Policies THEN 0
  ELSE (IF Head(exp)[1] = id THEN Head(exp)[2] ELSE 0) + SizeReached(Tail(exp), id)

\* the submission names known policies only, so the call returns normally
AllKnown(exp) == \A i \in 1..Len(exp) : exp[i][1] \in Policies

\* updatable policies with, and without, a registered trigger
Triggered == { id \in Policies : policy_dict[id].mem /\ policy_dict[id].upd
                                   /\ id \in update_trigger.keys }
Untriggered == { id \in Policies : policy_dict[id].mem /\ policy_dict[id].upd
                                     /\ id \notin update_trigger.keys }
BufferCapable == { id \in Policies : policy_dict[id].mem }

\* C1: update gating. In a call of on_experiences that returns normally, an
\* updatable policy with a registered trigger (M, W) is updated if and only if
\* its memory size, with the call's batch absorbed, is at least W and its
\* pending-new counter, with the batch counted, is at least M; after such an
\* update its pending-new counter is 0.
C1_UpdateGating ==
  [][\A exp \in Submissions : (OnExperiences(exp) /\ AllKnown(exp)) =>
       \A id \in Triggered :
         LET W == update_trigger.of[id].num_warmup_experiences
             M == update_trigger.of[id].min_new_experiences
             size == mem[id] + SizeFor(exp, id)
             pending == new_exp_counter[id] + SizeFor(exp, id)
         IN /\ (id \in last'.ids) <=> (size >= W /\ pending >= M)
            /\ (id \in last'.ids) => new_exp_counter'[id] = 0]_vars

\* C1 witness: a call updated p under the trigger (2, 2) and reset its counter,
\* and left q, whose trigger asks for more than q holds, alone.
C1_Witness ==
  /\ last.op = "on_experiences"
  /\ {"p", "q"} \subseteq Triggered
  /\ update_trigger.of["p"] = PolicyUpdateTrigger(2, 2)
  /\ "p" \in last.ids /\ new_exp_counter["p"] = 0
  /\ "q" \notin last.ids /\ mem["q"] > 0

\* C2 as claimed: an updatable policy with no registered trigger is updated by
\* a call if and only if its buffer is non-empty at the decision point.
C2_AsClaimed ==
  [][\A exp \in Submissions : (OnExperiences(exp) /\ AllKnown(exp)) =>
       \A id \in Untriggered :
         (id \in last'.ids) <=> (mem[id] + SizeFor(exp, id) > 0)]_vars

\* C2 amended: an updatable policy with no registered trigger is updated by
\* every call of on_experiences that returns normally, whether or not its
\* buffer is empty: its counter is reset and it joins the updated-policy set.
C2_UntriggeredAlwaysUpdated ==
  (last.op = "on_experiences" /\ ~last.err) =>
    \A id \in Untriggered :
      /\ id \in last.ids
      /\ new_exp_counter[id] = 0
      /\ id \in updated_policy_ids

\* C2 witness: p has no trigger, was updated by the last call and entered the
\* updated-policy set while its buffer was empty.
C2_Witness ==
  /\ last.op = "on_experiences"
  /\ "p" \in Untriggered
  /\ ~policy_dict["p"].clears
  /\ "p" \in last.ids /\ "p" \in updated_policy_ids
  /\ mem["p"] = 0

\* C3: the pending-new counter of a buffer-capable policy grows by exactly the
\* size of each batch submitted for it (in a call that raises KeyError, of each
\* batch the first loop reached), is set to 0 exactly by an update of the
\* policy, is left alone by get_state and the constructor, and never decreases
\* otherwise.
C3_PendingCounter ==
  [][/\ \A exp \in Submissions : OnExperiences(exp) =>
          \A id \in BufferCapable :
            /\ AllKnown(exp) => SizeReached(exp, id) = SizeFor(exp, id)
            /\ new_exp_counter'[id] =
                 IF id \in last'.ids THEN 0 ELSE new_exp_counter[id] + SizeReached(exp, id)
     /\ (GetState \/ Construct) => new_exp_counter' = new_exp_counter
     /\ \A id \in Policies :
          new_exp_counter'[id] < new_exp_counter[id] =>
            /\ last'.op = "on_experiences" /\ id \in last'.ids
            /\ new_exp_counter'[id] = 0]_vars

\* C3 witness: q can buffer but is never updated, and its counter holds more
\* than one batch can bring, so at least two submissions were added up.
C3_Witness ==
  /\ "q" \in BufferCapable
  /\ new_exp_counter["q"] > MaxBatch
  /\ new_exp_counter["q"] = mem["q"]

\* C4: no data loss. When on_experiences returns normally, every batch for a
\* known policy with an experience memory has been put into that memory once
\* (the memory grew by the batch, on top of what it held) and counted, before
\* any update of that policy in the same call.
C4_NoDataLoss ==
  [][\A exp \in Submissions : (OnExperiences(exp) /\ AllKnown(exp)) =>
       \A id \in BufferCapable :
         LET size == mem[id] + SizeFor(exp, id)
             pending == new_exp_counter[id] + SizeFor(exp, id)
         IN IF id \in last'.ids
              THEN /\ mem'[id] = IF policy_dict[id].clears THEN 0 ELSE size
                   /\ id \in Triggered =>
                        pending >= update_trigger.of[id].min_new_experiences
              ELSE mem'[id] = size /\ new_exp_counter'[id] = pending]_vars

\* C4 witness: the last call left q's memory fuller than one batch can make it,
\* with every record counted: batches of successive submissions were added up.
C4_Witness ==
  /\ last.op = "on_experiences" /\ ~last.err
  /\ "q" \in BufferCapable /\ "q" \notin last.ids
  /\ mem["q"] > MaxBatch
  /\ new_exp_counter["q"] = mem["q"]

\* C5: delta correctness. get_state returns exactly the policies that
\* on_experiences calls updated since the previous get_state (since
\* construction for the first one).
C5_DeltaCorrectness ==
  [][GetState => last'.ids = unreported]_vars

\* C5 witness: get_state returned p alone although q is updatable too.
C5_Witness ==
  /\ last.op = "get_state"
  /\ last.ids = {"p"}
  /\ policy_dict["q"].mem /\ policy_dict["q"].upd

\* C6: get_state empties the updated-policy set, so a get_state that follows
\* a get_state with no on_experiences in between returns an empty mapping.
C6_DrainIdempotent ==
  /\ (last.op = "get_state" => updated_policy_ids = {})
  /\ (drains = 2 => last.op = "get_state" /\ last.ids = {})

\* C6 witness: a second get_state in a row has returned.
C6_Witness == drains = 2 /\ last.op = "get_state"

\* what two on_experiences calls leave when one runs after the other, from the
\* manager as constructed
SeqRun(first, second) ==
  LET zero == [id \in Policies |-> 0]
      r1 == UpdateLoop(policy_dict, update_trigger,
                       Absorb(policy_dict, zero, zero, thr[first].arg), {})
      r2 == UpdateLoop(policy_dict, update_trigger,
                       Absorb(policy_dict, r1.mem, r1.cnt, thr[second].arg), r1.updated)
  IN [mem |-> r2.mem, cnt |-> r2.cnt, updated |-> r2.updated,
      ran |-> [t \in Actors |-> IF t = first THEN r1.ran ELSE r2.ran]]

Observed ==
  [mem |-> mem, cnt |-> new_exp_counter, updated |-> updated_policy_ids,
   ran |-> [t \in Actors |-> thr[t].ran]]

\* C7: the drain is atomic: get_state clears no identifier from the
\* updated-policy set that it has not put into the mapping it returns, even
\* with an on_experiences call in progress on the same manager.
C7_AtomicDrain ==
  [][\A t \in Getters : GetClear(t) => updated_policy_ids \subseteq thr[t].got]_vars

\* C8: concurrent on_experiences calls are serialized: once both actors' calls
\* have returned (and no get_state has run), the buffers, counters, updates
\* performed and updated-policy set are those of one of the two sequential
\* orders of the calls.
C8_Serialized ==
  (thr["a1"].pc = "done" /\ thr["a2"].pc = "done" /\ thr["g"].pc = "idle") =>
    Observed \in {SeqRun("a1", "a2"), SeqRun("a2", "a1")}

\* C9: with update_trigger a dict, the constructor fails if and only if some
\* key is no key of policy_dict; it fails before any attribute of the manager
\* is assigned, and a manager that failed runs no update.
C9_ConstructionValidation ==
  /\ status = "failed" <=>
       /\ status # "new"
       /\ trigger_arg.kind = "dict"
       /\ \E k \in trigger_arg.d.keys : k \notin DOMAIN policy_dict
  /\ status = "failed" =>
       /\ attrs = {} /\ names = <<>> /\ updated_policy_ids = {}
       /\ \A id \in Policies : new_exp_counter[id] = 0 /\ mem[id] = 0
       /\ last.op = "init" /\ last.err
  /\ status = "ready" => "_names" \in attrs /\ "_updated_policy_ids" \in attrs

\* C9 witness: the constructor has raised on a dict with an unknown key.
C9_Witness ==
  /\ status = "failed"
  /\ trigger_arg.kind = "dict" /\ Unknown \in trigger_arg.d.keys

\* C10: names is fixed at construction: after any calls it still lists exactly
\* the keys of policy_dict, each once.
C10_NamesFixed ==
  status = "ready" =>
    /\ { names[i] : i \in 1..Len(names) } = DOMAIN policy_dict
    /\ Len(names) = Cardinality(DOMAIN policy_dict)

\* C10 witness: an update and a drain have happened and names lists p and q.
C10_Witness ==
  /\ last.op = "get_state" /\ last.ids # {}
  /\ names = <<"p", "q">>


\* ======================================================================
\* The asynchronous actor: actor() in rl/learning/asynchronous/actor.py
\* ======================================================================
MaxEpisodes == 2     \* num_episodes tried: 1..MaxEpisodes
MaxLen == 2          \* an environment episode lasts 0..MaxLen steps
MaxVersion == 2      \* the policy server's version stays within 0..MaxVersion

\* the values of num_steps tried: invalid ones, -1, and positive ones
NumStepsTried == {-2, -1, 0, 1, 2}

\* the values of eval_schedule tried
EvalSchedulesTried ==
  {ScheduleNone, IntSchedule(0), IntSchedule(1), IntSchedule(2), ListSchedule(<<2>>),
   ListSchedule(<<2, 1>>), ListSchedule(<<1, 1>>)}

\* mutant: -1 is rejected as well
NumStepsInvalid_NonPositive(n) == n <= 0

\* if num_steps == 0 or num_steps < -1: raise ValueError
NumStepsInvalid(n) == n = 0 \/ n < -1

\* Python's a // b for b # 0
FloorDiv(a, b) == IF b > 0 THEN a \div b ELSE (0 - a) \div (0 - b)

\* [eval_schedule * i for i in range(1, num_eval_schedule + 1)]
Multiples(k, count) == [i \in 1..(IF count > 0 THEN count ELSE 0) |-> k * i]

\* one element put into its place in a sorted list
RECURSIVE Insert(_, _)
Insert(x, l) ==
  IF l = <<>> THEN <<x>>
  ELSE IF x <= Head(l) THEN <<x>> \o l
  ELSE <<Head(l)>> \o Insert(x, Tail(l))

\* eval_schedule.sort()
RECURSIVE Sorted(_)
Sorted(l) == IF l = <<>> THEN <<>> ELSE Insert(Head(l), Sorted(Tail(l)))

\* mutant: num_episodes is never appended
WithLast_Never(l, n) == l

\* if not eval_schedule or num_episodes != eval_schedule[-1]: append(num_episodes)
WithLast(l, n) == IF l = <<>> \/ l[Len(l)] # n THEN Append(l, n) ELSE l

\* num_episodes // eval_schedule raises ZeroDivisionError for the int 0
ScheduleFails(sch) == sch.kind = "int" /\ sch.n = 0

\* the list the actor builds from its eval_schedule argument
BuildSchedule(sch, n) ==
  ListSchedule(
    WithLast(
      CASE sch.kind = "none" -> <<>>
        [] sch.kind = "int" -> Multiples(sch.n, FloorDiv(n, sch.n))
        [] OTHER -> Sorted(sch.l),
      n))

\* ----------------------------------------------------- the environment wrapper
\* env_wrapper.reset(): no state, nothing recorded
EnvReset(e) == FreshEnv

\* env_wrapper.start(): the first state of an episode that lasts len steps
EnvStart(e, len) == [e EXCEPT !.state = len > 0, !.left = len]

\* env_wrapper.step(action): one step, whose experience is recorded; the action
\* was chosen under policy version v
EnvStep(e, v) ==
  [e EXCEPT !.state = e.left > 1, !.left = e.left - 1, !.step_index = e.step_index + 1,
            !.pending = e.pending + 1, !.gen = e.gen \cup {v}]

\* env_wrapper.get_experiences(): the recorded experiences are taken out
EnvTaken(e) == [e EXCEPT !.pending = 0, !.gen = {}]

\* mutant: explore() is not called, the agent stays in the mode it is in
Explore_Skipped(mode) == mode

\* agent_wrapper.explore()
Explore(mode) == "explore"

\* agent_wrapper.exploit()
Exploit(mode) == "exploit"

\* mutant: the training environment is started without being reset
ResetAndStart_NoReset(e, len) == EnvStart(e, len)

\* env_wrapper.reset(); env_wrapper.start()
ResetAndStart(e, len) == EnvStart(EnvReset(e), len)

\* ------------------------------------------------------------------ messages
ActorName == "ACTOR.0"
\* proxy.peers["policy_server"][0]
policy_server_address == "POLICY_SERVER.0"

Message(tag, src, dst, session, version, size, gen) ==
  [tag |-> tag, src |-> src, dst |-> dst, session |-> session, version |-> version,
   size |-> size, gen |-> gen]

\* SessionMessage(MsgTag.GET_INITIAL_POLICY_STATE, proxy.name, policy_server_address)
GetInitialPolicyState ==
  Message("GET_INITIAL_POLICY_STATE", ActorName, policy_server_address, "task",
          NoVersion, 0, {})

\* mutant: the request carries no version
CollectDone_NoVersion(version, size, gen) ==
  Message("COLLECT_DONE", ActorName, policy_server_address, "task", NoVersion, size, gen)

\* SessionMessage(MsgTag.COLLECT_DONE, ..., body={EXPERIENCES: ..., VERSION: policy_version})
CollectDone(version, size, gen) ==
  Message("COLLECT_DONE", ActorName, policy_server_address, "task", version, size, gen)

\* SessionMessage(MsgTag.DONE, ..., session_type=SessionType.NOTIFICATION)
Done ==
  Message("DONE", ActorName, policy_server_address, "notification", NoVersion, 0, {})

\* the policy server's reply: the version and the policy state of that version
Reply(to, version) == Message("REPLY", policy_server_address, to, "task", version, 0, {})

\* mutant: no call waits for its reply (isend everywhere)
WaitsForReply_Never(call) == FALSE

\* mutant: every call waits for a reply (send everywhere)
WaitsForReply_Always(call) == TRUE

\* proxy.send(msg)[0] blocks until the reply is there; proxy.isend(msg) returns at once
WaitsForReply(call) == call = "send"

\* mutant: the version held is kept, the reply's is ignored
Adopted_Kept(cur, reply) == cur

\* policy_version = reply.body[MsgKey.VERSION]
Adopted(cur, reply) == reply.version

\* mutant: the policy state of the reply is not applied
StateApplied_Dropped(cur, reply) == cur

\* agent_wrapper.set_policy_states(reply.body[MsgKey.POLICY_STATE])
StateApplied(cur, reply) == reply.version

\* mutant: the last episode is left out
MoreEpisodes_OffByOne(e, n) == e < n - 1

\* for ep in range(1, num_episodes + 1): another episode follows episode e
MoreEpisodes(e, n) == e < n

\* mutant: the segment loop is never entered
SegmentContinues_Never(state) == FALSE

\* while env_wrapper.state:
SegmentContinues(state) == state

\* mutant: the budget of the segment is ignored
RolloutContinues_IgnoresBudget(state, togo) == state

\* while env_wrapper.state and steps_to_go:
RolloutContinues(state, togo) == state /\ togo # 0

\* mutant: every episode end is taken for a scheduled evaluation
EvalDue_EveryEpisode(e, sch, idx) == idx + 1 \in 1..Len(sch.l)

\* if ep == eval_schedule[eval_point_index]:
EvalDue(e, sch, idx) == idx + 1 \in 1..Len(sch.l) /\ e = sch.l[idx + 1]

\* mutant: the server's version starts again from 0 after its second update
NextServerVersion_Reset(v, bump) == IF v + bump > 1 THEN 0 ELSE v + bump

\* the policy server's version after it handled a request: it never goes down
NextServerVersion(v, bump) == v + bump

\* ------------------------------------------------------------------- actor()
\* the policy manager and its callers stand still while the actor is looked at
ManagerIdle ==
  /\ policy_dict = CHOOSE d \in PolicyDicts : TRUE
  /\ trigger_arg = CHOOSE a \in TriggerArgs : TRUE
  /\ status = "new"
  /\ attrs = {}
  /\ names = <<>>
  /\ update_trigger = EmptyDict
  /\ mem = [id \in Policies |-> 0]
  /\ new_exp_counter = [id \in Policies |-> 0]
  /\ updated_policy_ids = {}
  /\ last = NoCall
  /\ unreported = {}
  /\ drains = 0
  /\ thr = [t \in Threads |-> IdleThread]
  /\ calls = <<>>

InitActor ==
  /\ ManagerIdle
  /\ CliIdle
  /\ num_steps \in NumStepsTried
  /\ num_episodes \in 1..MaxEpisodes
  /\ eval_schedule \in EvalSchedulesTried
  /\ eval_env_wrapper \in {"none", "eval"}
  /\ a_pc = "start"
  /\ policy_version = NoVersion
  /\ eval_point_index = 0
  /\ ep = 0
  /\ segment = 0
  /\ steps_to_go = 0
  /\ envs = [e \in {"train", "eval"} |-> FreshEnv]
  /\ agent = FreshAgent
  /\ proxy = "none"
  /\ net = {}
  /\ srv_version = 0
  /\ hist = NoHistory

arguments == <<num_steps, num_episodes>>
manager == <<pmVars, thr, calls, cli>>

Larger(a, b) == IF a >= b THEN a ELSE b

\* lines 55-56: the check of num_steps
Validate ==
  /\ a_pc = "start"
  /\ a_pc' = IF NumStepsInvalid(num_steps) THEN "failed" ELSE "setup"
  /\ UNCHANGED <<manager, arguments, eval_schedule, eval_env_wrapper, policy_version,
                 eval_point_index, ep, segment, steps_to_go, envs, agent, proxy, net,
                 srv_version, hist>>

\* lines 58-78: the evaluation environment, the proxy, the evaluation schedule
Setup ==
  /\ a_pc = "setup"
  /\ eval_env_wrapper' = IF eval_env_wrapper = "none" THEN "train" ELSE eval_env_wrapper
  /\ proxy' = "open"
  /\ policy_version' = NoVersion
  /\ IF ScheduleFails(eval_schedule)
       THEN /\ a_pc' = "crashed"
            /\ UNCHANGED <<eval_schedule, eval_point_index>>
       ELSE /\ eval_schedule' = BuildSchedule(eval_schedule, num_episodes)
            /\ eval_point_index' = 0
            /\ a_pc' = "send_init"
  /\ UNCHANGED <<manager, arguments, ep, segment, steps_to_go, envs, agent, net,
                 srv_version, hist>>

\* lines 81-82: the request for the initial policy state
SendInit ==
  /\ a_pc = "send_init"
  /\ net' = net \cup {GetInitialPolicyState}
  /\ hist' = [hist EXCEPT !.init_reqs = @ + 1, !.sent = @ + 1]
  /\ a_pc' = IF WaitsForReply("send") THEN "wait_init" ELSE "ep_head"
  /\ UNCHANGED <<manager, arguments, eval_schedule, eval_env_wrapper, policy_version,
                 eval_point_index, ep, segment, steps_to_go, envs, agent, proxy,
                 srv_version>>

\* a reply reaches the blocked actor: the version is adopted, the state applied
Receive(then) ==
  /\ \E m \in net :
       /\ m.dst = ActorName
       /\ net' = net \ {m}
       /\ policy_version' = Adopted(policy_version, m)
       /\ agent' = [agent EXCEPT !.state_version = StateApplied(@, m)]
       /\ hist' = [hist EXCEPT !.max_seen = Larger(@, m.version),
                               !.last_reply = m.version,
                               !.first_reply = IF @ = NoVersion THEN m.version ELSE @]
  /\ a_pc' = then
  /\ UNCHANGED <<manager, arguments, eval_schedule, eval_env_wrapper, eval_point_index,
                 ep, segment, steps_to_go, envs, proxy, srv_version>>

\* lines 82-84: the reply to the initial request
RecvInit ==
  /\ a_pc = "wait_init"
  /\ Receive("ep_head")

\* lines 87-93: the next training episode begins
EpisodeStart ==
  /\ a_pc = "ep_head"
  /\ MoreEpisodes(ep, num_episodes)
  /\ ep' = ep + 1
  /\ agent' = [agent EXCEPT !.mode = Explore(@)]
  /\ \E len \in 0..MaxLen :
       /\ envs' = [envs EXCEPT !["train"] = ResetAndStart(@, len)]
       /\ hist' = [hist EXCEPT !.collects = 0, !.seg_steps = 0, !.live_start = len > 0,
                               !.eps_run = @ + 1]
  /\ segment' = 0
  /\ a_pc' = "seg_head"
  /\ UNCHANGED <<manager, arguments, eval_schedule, eval_env_wrapper, policy_version,
                 eval_point_index, steps_to_go, proxy, net, srv_version>>

\* lines 94-100: the test of the segment loop, and the head of a segment
SegmentStart ==
  /\ a_pc = "seg_head"
  /\ IF SegmentContinues(envs["train"].state)
       THEN /\ segment' = segment + 1
            /\ steps_to_go' = num_steps
            /\ hist' = [hist EXCEPT !.seg_steps = 0]
            /\ a_pc' = "rollout"
       ELSE /\ a_pc' = "ep_end"
            /\ UNCHANGED <<segment, steps_to_go, hist>>
  /\ UNCHANGED <<manager, arguments, eval_schedule, eval_env_wrapper, policy_version,
                 eval_point_index, ep, envs, agent, proxy, net, srv_version>>

\* lines 101-103: one turn of the roll-out loop
RolloutStep ==
  /\ a_pc = "rollout"
  /\ IF RolloutContinues(envs["train"].state, steps_to_go)
       THEN /\ envs' = [envs EXCEPT !["train"] = EnvStep(@, policy_version)]
            /\ steps_to_go' = steps_to_go - 1
            /\ hist' = [hist EXCEPT !.seg_steps = @ + 1]
            /\ a_pc' = "rollout"
       ELSE /\ a_pc' = "collect"
            /\ UNCHANGED <<envs, steps_to_go, hist>>
  /\ UNCHANGED <<manager, arguments, eval_schedule, eval_env_wrapper, policy_version,
                 eval_point_index, ep, segment, agent, proxy, net, srv_version>>

\* lines 110-119: the segment's experiences are taken and sent
SendCollect ==
  /\ a_pc = "collect"
  /\ envs' = [envs EXCEPT !["train"] = EnvTaken(@)]
  /\ net' = net \cup {CollectDone(policy_version, envs["train"].pending, envs["train"].gen)}
  /\ hist' = [hist EXCEPT !.collects = @ + 1, !.sent = @ + 1]
  /\ a_pc' = IF WaitsForReply("send") THEN "wait_collect" ELSE "seg_head"
  /\ UNCHANGED <<manager, arguments, eval_schedule, eval_env_wrapper, policy_version,
                 eval_point_index, ep, segment, steps_to_go, agent, proxy, srv_version>>

\* lines 120-121: the reply to COLLECT_DONE
RecvCollect ==
  /\ a_pc = "wait_collect"
  /\ Receive("seg_head")

\* lines 124-142: the end of a training episode, and the head of an evaluation
EpisodeEnd ==
  /\ a_pc = "ep_end"
  /\ \E len \in 0..MaxLen :
       IF eval_point_index >= Len(eval_schedule.l)
         THEN /\ a_pc' = "crashed"
              /\ UNCHANGED <<eval_point_index, agent, envs, hist>>
         ELSE IF EvalDue(ep, eval_schedule, eval_point_index)
           THEN /\ eval_point_index' = eval_point_index + 1
                /\ agent' = [agent EXCEPT !.mode = Exploit(@)]
                /\ envs' = [envs EXCEPT ![eval_env_wrapper] = EnvStart(EnvReset(@), len)]
                /\ hist' = [hist EXCEPT !.evals = @ + 1, !.evaluated = @ \cup {ep}]
                /\ a_pc' = "eval"
           ELSE /\ a_pc' = "ep_head"
                /\ UNCHANGED <<eval_point_index, agent, envs, hist>>
  /\ UNCHANGED <<manager, arguments, eval_schedule, eval_env_wrapper, policy_version,
                 ep, segment, steps_to_go, proxy, net, srv_version>>

\* lines 143-145: one turn of the evaluation loop
EvalStep ==
  /\ a_pc = "eval"
  /\ IF envs[eval_env_wrapper].state
       THEN /\ envs' = [envs EXCEPT ![eval_env_wrapper] = EnvStep(@, policy_version)]
            /\ a_pc' = "eval"
       ELSE /\ a_pc' = "ep_head"
            /\ UNCHANGED envs
  /\ UNCHANGED <<manager, arguments, eval_schedule, eval_env_wrapper, policy_version,
                 eval_point_index, ep, segment, steps_to_go, agent, proxy, net,
                 srv_version, hist>>

\* lines 151-152: DONE is sent and the proxy closed
Finish ==
  /\ a_pc = "ep_head"
  /\ ~MoreEpisodes(ep, num_episodes)
  /\ net' = net \cup {Done}
  /\ hist' = [hist EXCEPT !.dones = @ + 1, !.sent = @ + 1]
  /\ IF WaitsForReply("isend")
       THEN a_pc' = "wait_done" /\ proxy' = proxy
       ELSE a_pc' = "done" /\ proxy' = "closed"
  /\ UNCHANGED <<manager, arguments, eval_schedule, eval_env_wrapper, policy_version,
                 eval_point_index, ep, segment, steps_to_go, envs, agent, srv_version>>

\* ---------------------------------------------------------- the policy server
\* the server answers a request with its version, after an update or without one
ServeRequest ==
  /\ \E m \in net : \E bump \in {0, 1} :
       /\ m.dst = policy_server_address
       /\ m.session = "task"
       /\ srv_version + bump <= MaxVersion
       /\ srv_version' = NextServerVersion(srv_version, bump)
       /\ net' = (net \ {m}) \cup {Reply(m.src, srv_version')}
  /\ UNCHANGED <<manager, arguments, eval_schedule, eval_env_wrapper, a_pc,
                 policy_version, eval_point_index, ep, segment, steps_to_go, envs,
                 agent, proxy, hist>>

\* the server takes a notification; it sends nothing back
ServeDone ==
  /\ \E m \in net :
       /\ m.dst = policy_server_address
       /\ m.session = "notification"
       /\ net' = net \ {m}
  /\ UNCHANGED <<manager, arguments, eval_schedule, eval_env_wrapper, a_pc,
                 policy_version, eval_point_index, ep, segment, steps_to_go, envs,
                 agent, proxy, srv_version, hist>>

\* other actors' experiences make the server update its policies
ServerAdvance ==
  /\ srv_version < MaxVersion
  /\ srv_version' = NextServerVersion(srv_version, 1)
  /\ UNCHANGED <<manager, arguments, eval_schedule, eval_env_wrapper, a_pc,
                 policy_version, eval_point_index, ep, segment, steps_to_go, envs,
                 agent, proxy, net, hist>>

ActorStep ==
  \/ Validate
  \/ Setup
  \/ SendInit
  \/ RecvInit
  \/ EpisodeStart
  \/ SegmentStart
  \/ RolloutStep
  \/ SendCollect
  \/ RecvCollect
  \/ EpisodeEnd
  \/ EvalStep
  \/ Finish

ServerStep == ServeRequest \/ ServeDone \/ ServerAdvance

NextActor == ActorStep \/ ServerStep

SpecActor == InitActor /\ [][NextActor]_vars

\* the actor called without an evaluation schedule (eval_schedule=None)
InitActorDefault == InitActor /\ eval_schedule = ScheduleNone

SpecActorDefault == InitActorDefault /\ [][NextActor]_vars

\* the scheduler runs the actor while it can run, and the server answers
SpecActorFair == SpecActor /\ WF_vars(ActorStep) /\ WF_vars(ServeRequest)

\* ======================================================================
\* Properties of the actor
\* ======================================================================
\* the actor has touched nothing outside itself
NothingTouched ==
  /\ proxy = "none"
  /\ net = {}
  /\ hist.sent = 0
  /\ envs = [e \in {"train", "eval"} |-> FreshEnv]
  /\ agent = FreshAgent

\* C11: a num_steps of 0 or below -1 makes the actor fail before it creates the
\* proxy, sends a message or calls the environment or the agent; -1 and every
\* positive num_steps pass; the budget of a segment is num_steps itself, never
\* a value clamped into the valid range.
C11_NumStepsValidated ==
  /\ (num_steps = 0 \/ num_steps < -1) =>
       (a_pc \in {"start", "failed"} /\ NothingTouched)
  /\ (num_steps = -1 \/ num_steps >= 1) => a_pc # "failed"
  /\ a_pc \in {"rollout", "collect"} => steps_to_go + hist.seg_steps = num_steps

C11_Witness == a_pc = "failed" /\ num_steps < -1 /\ NothingTouched

\* the actor holds a version and has applied a policy state
Ready == policy_version # NoVersion /\ agent.state_version # NoVersion

\* the positions of the actor after the initial round trip
PastHandshake ==
  {"ep_head", "seg_head", "rollout", "collect", "wait_collect", "ep_end", "eval", "done"}

\* C12: the actor sends GET_INITIAL_POLICY_STATE exactly once; it holds the
\* version of the reply and has applied its policy state before the first
\* reset, start or step of an environment and before it chooses an action, and
\* no environment or agent call is made while the version is undefined.
C12_InitialHandshake ==
  /\ [](/\ hist.init_reqs <= 1
        /\ a_pc \in PastHandshake => hist.init_reqs = 1 /\ Ready
        /\ (a_pc = "ep_head" /\ ep = 0) =>
             (policy_version = hist.max_seen /\ agent.state_version = hist.max_seen)
        /\ ~Ready => (ep = 0 /\ envs = [e \in {"train", "eval"} |-> FreshEnv]
                       /\ agent.mode = "init"))
  /\ [][(envs' # envs \/ agent'.mode # agent.mode) => (Ready /\ hist.init_reqs = 1)]_vars

C12_Witness ==
  /\ a_pc = "rollout"
  /\ hist.seg_steps > 0
  /\ ep = 1
  /\ segment = 1
  /\ hist.init_reqs = 1
  /\ Ready

\* the COLLECT_DONE requests in flight
CollectsInFlight == {m \in net : m.tag = "COLLECT_DONE"}

\* C13: each segment has exactly one COLLECT_DONE, sent after the segment's
\* steps and carrying their experiences; the actor then waits, takes the
\* version of the reply and applies its policy state, and only then goes on to
\* the next action or environment step.
C13_OneCollectPerSegment ==
  /\ [](/\ a_pc \in {"rollout", "collect"} => hist.collects = segment - 1
        /\ a_pc \in {"wait_collect", "seg_head", "ep_end"} => hist.collects = segment
        /\ \A m \in CollectsInFlight :
             a_pc = "wait_collect" /\ m.size = hist.seg_steps /\ m.size >= 1)
  /\ [][a_pc = "wait_collect" =>
          /\ envs' = envs
          /\ hist'.sent = hist.sent
          /\ a_pc' # a_pc =>
               \E m \in net : /\ m.dst = ActorName
                              /\ policy_version' = m.version
                              /\ agent'.state_version = m.version]_vars

C13_Witness ==
  /\ a_pc = "rollout"
  /\ segment = 2
  /\ hist.seg_steps = 1
  /\ hist.collects = 1
  /\ policy_version > 0
  /\ agent.state_version = policy_version

\* C14: a COLLECT_DONE request carries the version of the last reply the actor
\* received (the initial reply for the first segment of the run, the reply to
\* the previous COLLECT_DONE afterwards), and every experience in the request
\* was generated under that version.
C14_CollectCarriesVersion ==
  \A m \in CollectsInFlight :
    /\ m.version = hist.last_reply
    /\ m.version # NoVersion
    /\ m.gen = {m.version}

C14_Witness ==
  \E m \in CollectsInFlight :
    /\ segment = 2
    /\ m.version = hist.last_reply
    /\ m.version > 0
    /\ m.gen = {m.version}

\* C15: the version the actor holds never goes down, and neither does the
\* version of the policy state it has applied; once past the initial round
\* trip the actor holds the largest version it has received, so it never acts
\* on a version older than one it has seen.
C15_VersionMonotone ==
  /\ [][/\ policy_version' >= policy_version
        /\ agent'.state_version >= agent.state_version]_vars
  /\ [](a_pc \in PastHandshake =>
          /\ policy_version = hist.max_seen
          /\ agent.state_version = hist.max_seen)

C15_Witness ==
  /\ a_pc = "rollout"
  /\ hist.seg_steps > 0
  /\ hist.first_reply # NoVersion
  /\ policy_version > hist.first_reply
  /\ agent.state_version = policy_version

\* the requests of the actor that are not answered yet, and the replies on
\* their way to it
Outstanding ==
  {m \in net : (m.src = ActorName /\ m.session = "task") \/ m.dst = ActorName}

\* C16: from the moment the actor sends a request until it has the reply it
\* is blocked: it steps no environment, chooses no action and sends nothing;
\* so it has at most one request outstanding. Every message of the actor
\* goes to the policy server.
C16_BlockingRoundTrip ==
  /\ [](/\ Cardinality(Outstanding) <= 1
        /\ Outstanding # {} <=> a_pc \in {"wait_init", "wait_collect"}
        /\ \A m \in net : m.src = ActorName => m.dst = policy_server_address)
  /\ [][Outstanding # {} =>
          /\ envs' = envs
          /\ agent'.mode = agent.mode
          /\ hist'.sent = hist.sent
          /\ a_pc' # a_pc => \E m \in net : m.dst = ActorName /\ m \notin net']_vars

C16_Witness ==
  /\ a_pc = "wait_collect"
  /\ segment = 2
  /\ Cardinality(Outstanding) = 1
  /\ \E m \in net : m.dst = ActorName /\ m.src = policy_server_address

\* C17: DONE is sent at most once, and only when all num_episodes episodes
\* and the evaluation after the last one are over; the actor does not wait
\* for an answer: having sent DONE it has closed the proxy and stopped, and
\* it sends nothing afterwards.
C17_DoneOnceAtEnd ==
  /\ [](/\ hist.dones <= 1
        /\ hist.dones = 1 <=> a_pc = "done"
        /\ hist.dones = 1 <=> proxy = "closed"
        /\ hist.dones = 1 =>
             /\ ep = num_episodes
             /\ hist.eps_run = num_episodes
             /\ ~envs["train"].state
             /\ ~envs[eval_env_wrapper].state
             /\ Outstanding = {})
  /\ [][hist.dones >= 1 => (hist'.sent = hist.sent /\ a_pc' = a_pc /\ envs' = envs)]_vars

C17_Witness ==
  /\ a_pc = "done"
  /\ hist.dones = 1
  /\ num_episodes = 2
  /\ hist.evals >= 1
  /\ proxy = "closed"
  /\ Done \in net

\* C18: when the server answers every request and every environment episode
\* ends, an actor that has set itself up runs the episodes 1..num_episodes
\* one after the other, sends DONE and stops; while it waits for a reply
\* nothing but the reply moves it: no timeout, no retry.
C18_RunsToCompletion ==
  /\ (a_pc = "send_init") ~> (a_pc = "done" /\ hist.dones = 1)
  /\ [](a_pc = "done" => (ep = num_episodes /\ hist.eps_run = num_episodes))
  /\ [][/\ ep' # ep => (ep' = ep + 1 /\ ep' <= num_episodes /\ hist'.eps_run = ep')
        /\ (a_pc \in {"wait_init", "wait_collect"} /\ a_pc' # a_pc) =>
             \E m \in net : m.dst = ActorName /\ m.tag = "REPLY" /\ m \notin net'
        /\ (a_pc \in {"wait_init", "wait_collect"} /\ a_pc' = a_pc) =>
             (hist' = hist /\ proxy' = proxy)]_vars

C18_Witness ==
  /\ a_pc = "done"
  /\ num_episodes = MaxEpisodes
  /\ hist.eps_run = MaxEpisodes
  /\ hist.dones = 1
  /\ num_steps = 1
  /\ policy_version = MaxVersion

C20_SegmentLength ==
  /\ (a_pc = "rollout" /\ num_steps >= 1) => hist.seg_steps <= num_steps
  /\ (a_pc \in {"collect", "wait_collect"} /\ num_steps >= 1) =>
       /\ hist.seg_steps \in 1..num_steps
       /\ hist.seg_steps < num_steps => ~envs["train"].state
  /\ (a_pc \in {"collect", "wait_collect"} /\ num_steps = -1) =>
       /\ hist.seg_steps >= 1
       /\ ~envs["train"].state
       /\ segment = 1
  /\ (a_pc = "ep_end" /\ num_steps = -1 /\ hist.live_start) =>
       (segment = 1 /\ hist.collects = 1)

C20_Witness ==
  /\ a_pc = "ep_end"
  /\ num_steps = -1
  /\ hist.live_start
  /\ segment = 1
  /\ hist.collects = 1
  /\ hist.seg_steps = MaxLen

\* the actor has built its evaluation schedule (it is past line 78)
ScheduleBuilt == a_pc \in {"send_init", "wait_init"} \cup PastHandshake

StrictlyAscending(l) == \A i \in 1..(Len(l) - 1) : l[i] < l[i + 1]

\* C21 as claimed: whatever eval_schedule is passed (None, an int, a list),
\* the schedule the actor has built is strictly ascending and ends with
\* num_episodes.
C21_ScheduleInvariant ==
  ScheduleBuilt =>
    /\ StrictlyAscending(eval_schedule.l)
    /\ eval_schedule.l # <<>>
    /\ eval_schedule.l[Len(eval_schedule.l)] = num_episodes

\* C22 as claimed: whatever eval_schedule is passed, an actor that has sent
\* DONE has run an evaluation after its last training episode.
C22_FinalEvaluation == a_pc = "done" => num_episodes \in hist.evaluated

\* the episodes named by the built schedule
Scheduled == {eval_schedule.l[i] : i \in 1..Len(eval_schedule.l)}

\* C23 as claimed: when a training episode and what follows it are over, an
\* evaluation has run after episode e exactly if e is in the schedule, and
\* no episode has had more than one evaluation.
C23_EvaluatedIffScheduled ==
  a_pc \in {"ep_head", "done"} =>
    /\ \A e \in 1..ep : e \in hist.evaluated <=> e \in Scheduled
    /\ hist.evals = Cardinality(hist.evaluated)

\* a step of an evaluation pass sends nothing, takes no experience out of an
\* environment and leaves the version and the policy state alone
EvaluationFrame ==
  a_pc \in {"ep_end", "eval"} =>
    /\ hist'.sent = hist.sent
    /\ hist'.collects = hist.collects
    /\ policy_version' = policy_version
    /\ agent'.state_version = agent.state_version
    /\ {m \in net' : m.src = ActorName} \subseteq net
    /\ a_pc = "eval" =>
         (\A e \in {"train", "eval"} : envs'[e].pending >= envs[e].pending)

\* C24: from the head of an evaluation pass to its end the actor sends no
\* message and has no request outstanding, takes no experience out of an
\* environment, and keeps its policy version and policy state; what an
\* evaluation recorded is never sent: a COLLECT_DONE holds the experiences of
\* its segment's steps only.
C24_EvaluationIsSilent ==
  /\ [][EvaluationFrame]_vars
  /\ [](a_pc = "eval" => Outstanding = {})
  /\ [](\A m \in CollectsInFlight : m.size = hist.seg_steps)

C24_Witness ==
  \E m \in CollectsInFlight :
    /\ ep = 2
    /\ 1 \in hist.evaluated
    /\ eval_env_wrapper = "train"
    /\ m.size = hist.seg_steps
    /\ m.size = MaxLen

\* a step of the actor that makes the agent choose an action
ActionChosen == a_pc \in {"rollout", "eval"} /\ envs' # envs

\* C25: an action of a training segment is chosen in exploration mode, an
\* action of an evaluation pass in exploitation mode; throughout the segments
\* of a training episode, also one that follows an evaluation, the agent
\* explores.
C25_ModeDiscipline ==
  /\ [][ActionChosen =>
          agent.mode = (IF a_pc = "rollout" THEN "explore" ELSE "exploit")]_vars
  /\ [](/\ a_pc \in {"seg_head", "rollout", "collect", "wait_collect"} =>
             agent.mode = "explore"
        /\ a_pc = "eval" => agent.mode = "exploit")

C25_Witness ==
  /\ a_pc = "rollout"
  /\ ep = 2
  /\ 1 \in hist.evaluated
  /\ hist.seg_steps >= 1
  /\ agent.mode = "explore"

\* a step in which the actor sends a message sends the one its place in the
\* run calls for: the initial request first, DONE as it stops, COLLECT_DONE
\* otherwise; after a request the actor waits for the reply
TraceStep ==
  hist'.sent # hist.sent =>
    /\ hist'.sent = hist.sent + 1
    /\ hist.dones = 0
    /\ \E m \in net' \ net :
         /\ m.src = ActorName
         /\ m.tag = (IF hist.sent = 0 THEN "GET_INITIAL_POLICY_STATE"
                     ELSE IF a_pc' = "done" THEN "DONE" ELSE "COLLECT_DONE")
         /\ m.tag # "DONE" => a_pc' \in {"wait_init", "wait_collect"}

\* C26: called without an evaluation schedule the actor builds the schedule
\* [num_episodes]; it evaluates once, after the last training episode, and
\* its messages are one initial request, then COLLECT_DONE requests only,
\* then one DONE.
C26_DefaultSchedule ==
  /\ [](/\ ScheduleBuilt => eval_schedule.l = <<num_episodes>>
        /\ hist.evaluated \subseteq {num_episodes}
        /\ hist.evals <= 1
        /\ a_pc = "done" =>
             /\ hist.evaluated = {num_episodes}
             /\ hist.evals = 1
             /\ hist.init_reqs = 1
             /\ hist.dones = 1)
  /\ [][TraceStep]_vars

C26_Witness ==
  /\ a_pc = "done"
  /\ num_episodes = MaxEpisodes
  /\ eval_schedule.l = <<MaxEpisodes>>
  /\ hist.evaluated = {MaxEpisodes}
  /\ hist.evals = 1
  /\ hist.sent >= 4

\* ======================================================================
\* A manager with one updatable policy, fed a few batches one after the other
\* ======================================================================
\* "p" buffers and updates, keeping or emptying its buffer; "q" cannot buffer
ScenarioDicts == { [p |-> k, q |-> NoMem] : k \in {OffPolicy, OnPolicy} }

ScenarioTriggers == { PolicyUpdateTrigger(m, w) : m \in {5, 10}, w \in {10, 20} }

\* the sizes of the batches submitted for "p"
ScenarioSizes == {5, 10}

InitScenario ==
  /\ policy_dict \in ScenarioDicts
  /\ trigger_arg \in { [kind |-> "single", t |-> t] : t \in ScenarioTriggers }
  /\ status = "new"
  /\ attrs = {}
  /\ names = <<>>
  /\ update_trigger = EmptyDict
  /\ mem = [id \in Policies |-> 0]
  /\ new_exp_counter = [id \in Policies |-> 0]
  /\ updated_policy_ids = {}
  /\ last = NoCall
  /\ unreported = {}
  /\ drains = 0
  /\ thr = [t \in Threads |-> IdleThread]
  /\ calls = <<>>
  /\ CliIdle
  /\ ActorIdle

\* on_experiences({"p": batch}) for a batch of one of the sizes, up to three times
ScenarioSubmit ==
  /\ status = "ready"
  /\ Len(calls) < 3
  /\ \E size \in ScenarioSizes :
       LET a == Absorb(policy_dict, mem, new_exp_counter, <<<<"p", size>>>>)
           r == UpdateLoop(policy_dict, update_trigger, a, updated_policy_ids)
       IN /\ mem' = r.mem
          /\ new_exp_counter' = r.cnt
          /\ updated_policy_ids' = r.updated
          /\ last' = [op |-> "on_experiences", ids |-> r.ran, err |-> r.err]
          /\ unreported' = unreported \cup r.ran
          /\ drains' = 0
          /\ calls' = Append(calls, [size |-> size, updated |-> r.ran])
  /\ UNCHANGED <<policy_dict, trigger_arg, status, attrs, names, update_trigger, thr,
                 actorVars, cli>>

NextScenario == Construct \/ ScenarioSubmit

SpecScenario == InitScenario /\ [][NextScenario]_vars

\* the sizes submitted so far
Sizes == [i \in 1..Len(calls) |-> calls[i].size]

\* the scenario of the claim: trigger (10, 20), a buffer that updates do not
\* shrink, batches of 5, 10 and 10
InScenario ==
  /\ policy_dict["p"] = OffPolicy
  /\ trigger_arg = [kind |-> "single", t |-> PolicyUpdateTrigger(10, 20)]
  /\ Sizes = SubSeq(<<5, 10, 10>>, 1, Len(calls))

\* C27: with trigger (min_new_experiences 10, num_warmup_experiences 20) and
\* an update that keeps the buffer, batches of 5, 10 and 10 for the one
\* updatable policy give no update on the first two calls and one update on
\* the third, when 25 are buffered; the counter of new experiences is 5, 15 and
\* then 0.
C27_Scenario ==
  InScenario =>
    /\ \A i \in 1..Len(calls) : calls[i].updated = (IF i = 3 THEN {"p"} ELSE {})
    /\ mem["p"] = (CASE Len(calls) = 0 -> 0 [] Len(calls) = 1 -> 5
                     [] Len(calls) = 2 -> 15 [] OTHER -> 25)
    /\ new_exp_counter["p"] = (IF Len(calls) \in {1, 2} THEN mem["p"] ELSE 0)
    /\ Len(calls) = 3 => updated_policy_ids = {"p"}

C27_Witness ==
  /\ InScenario
  /\ Len(calls) = 3
  /\ calls[3].updated = {"p"}
  /\ mem["p"] = 25
  /\ new_exp_counter["p"] = 0

\* ======================================================================
\* Further properties of the policy manager
\* ======================================================================
\* the entries of a submission that are for one policy
Only(exp, id) == SelectSeq(exp, LAMBDA e : e[1] = id)

\* what on_experiences(exp) makes of the manager's present state
Outcome(exp) ==
  UpdateLoop(policy_dict, update_trigger,
             Absorb(policy_dict, mem, new_exp_counter, exp), updated_policy_ids)

\* what a call that returns normally does to policy id is what the call would
\* do with the entries for id alone; with no entry for id and no update of
\* it, its buffer and its counter stay as they are
IndependentStep(exp) ==
  \A id \in Policies :
    LET alone == Outcome(Only(exp, id))
    IN /\ mem'[id] = alone.mem[id]
       /\ new_exp_counter'[id] = alone.cnt[id]
       /\ id \in last'.ids <=> id \in alone.ran
       /\ id \in last'.ids =>
            (id \in Updatable(policy_dict)
               /\ ShouldUpdate(id, update_trigger,
                               [mem EXCEPT ![id] = @ + SizeFor(exp, id)],
                               [new_exp_counter EXCEPT ![id] = @ + SizeFor(exp, id)]))
       /\ (SizeFor(exp, id) = 0 /\ id \notin last'.ids) =>
            (mem'[id] = mem[id] /\ new_exp_counter'[id] = new_exp_counter[id])

\* C28: in a call of on_experiences that returns normally, whether a policy
\* is updated depends on its own buffer, counter and trigger only, a batch
\* for another policy leaves its buffer and its counter alone, and the call
\* updates it at most once.
C28_PerPolicyIndependence ==
  [][\A exp \in { e \in Submissions : AllKnown(e) } :
       OnExperiences(exp) => IndependentStep(exp)]_vars

C28_Witness ==
  /\ last.op = "on_experiences"
  /\ last.ids = {"p"}
  /\ "q" \in Updatable(policy_dict)
  /\ mem["q"] > 0
  /\ new_exp_counter["q"] = mem["q"]
  /\ new_exp_counter["p"] = 0

\* known policies without experience_memory, and with it but without update
Bufferless == { id \in Policies : ~policy_dict[id].mem }
NeverUpdatable == { id \in Policies : policy_dict[id].mem /\ ~policy_dict[id].upd }

\* the submissions that hold one non-empty batch, for "q"
BatchesForQ == { <<<<"q", n>>>> : n \in 1..MaxBatch }

\* what a batch for "q" does when "q" cannot buffer, and when it can buffer
\* but not update
NonUpdatableStep(exp) ==
  /\ "q" \in Bufferless =>
       (mem'["q"] = mem["q"] /\ new_exp_counter'["q"] = new_exp_counter["q"])
  /\ "q" \in NeverUpdatable =>
       /\ mem'["q"] = mem["q"] + SizeFor(exp, "q")
       /\ new_exp_counter'["q"] = new_exp_counter["q"] + SizeFor(exp, "q")
  /\ "q" \in Bufferless \cup NeverUpdatable => "q" \notin last'.ids

\* C29: a batch for a known policy without experience_memory is ignored: the
\* policy's buffer and counter stay 0, it is never updated and no get_state
\* returns it; a policy with experience_memory but without update gathers
\* every batch in its buffer and its counter, and is never updated either.
C29_NonUpdatablePolicies ==
  /\ [](/\ \A id \in Bufferless :
             /\ mem[id] = 0
             /\ new_exp_counter[id] = 0
             /\ id \notin updated_policy_ids \cup unreported \cup last.ids
        /\ \A id \in NeverUpdatable :
             /\ new_exp_counter[id] = mem[id]
             /\ id \notin updated_policy_ids \cup unreported \cup last.ids)
  /\ [][\A exp \in BatchesForQ : OnExperiences(exp) => NonUpdatableStep(exp)]_vars

C29_Witness ==
  /\ last.op = "on_experiences"
  /\ last.ids = {}
  /\ NeverUpdatable = {"q"}
  /\ mem["q"] = MaxMem
  /\ new_exp_counter["q"] = MaxMem
  /\ mem["p"] = 0
\* every updatable policy, and no other, has the trigger t registered
AllGet(t) ==
  /\ update_trigger.keys = Updatable(policy_dict)
  /\ \A id \in update_trigger.keys : update_trigger.of[id] = t

\* under the default trigger: a record delivered to an updatable policy gets
\* it updated in the call (if the call returns normally); without a record
\* and with no new experience counted it is not updated
DefaultStep(exp) ==
  \A id \in Updatable(policy_dict) :
    /\ (SizeFor(exp, id) >= 1 /\ AllKnown(exp)) =>
         (id \in last'.ids /\ new_exp_counter'[id] = 0)
    /\ (SizeFor(exp, id) = 0 /\ new_exp_counter[id] = 0) =>
         (id \notin last'.ids /\ mem'[id] = mem[id])

\* C30: a manager built with update_trigger=None registers the trigger (1, 1)
\* for every updatable policy, one built with a single trigger registers that
\* trigger for every updatable policy; under the default trigger a call
\* (returning normally) that brings an updatable policy at least one record
\* updates it, and a call that brings it none while its counter is 0 does not.
C30_TriggerAssignment ==
  /\ [](status = "ready" =>
          /\ trigger_arg.kind = "none" => AllGet(PolicyUpdateTrigger(1, 1))
          /\ trigger_arg.kind = "single" => AllGet(trigger_arg.t))
  /\ [][\A exp \in Submissions :
          (OnExperiences(exp) /\ trigger_arg.kind = "none") => DefaultStep(exp)]_vars

C30_Witness ==
  /\ status = "ready"
  /\ trigger_arg.kind = "none"
  /\ AllGet(PolicyUpdateTrigger(1, 1))
  /\ Updatable(policy_dict) = {"p", "q"}
  /\ last.op = "on_experiences"
  /\ last.ids = {"q"}
  /\ mem["p"] = 1
  /\ mem["q"] = 2
  /\ new_exp_counter = [id \in Policies |-> 0]

\* the submissions that name an identifier that is no key of policy_dict
UnknownSubmissions == { e \in Submissions : ~AllKnown(e) }

\* a call with an unknown identifier fails: nothing is updated, the set of
\* updated policies stays, and buffers and counters hold what the first
\* loop absorbed before it reached the unknown identifier
FailedStep(exp) ==
  /\ last'.err
  /\ last'.ids = {}
  /\ updated_policy_ids' = updated_policy_ids
  /\ unreported' = unreported
  /\ \A id \in Policies :
       LET got == IF id \in BufferCapable THEN SizeReached(exp, id) ELSE 0
       IN /\ mem'[id] = mem[id] + got
          /\ new_exp_counter'[id] = new_exp_counter[id] + got

\* C31: on_experiences with a mapping that names an identifier outside
\* policy_dict fails in the first loop: no policy is updated in that call and
\* the set of updated policies is unchanged; only the batches iterated before
\* the unknown identifier are in the buffers and the counters.
C31_UnknownIdentifierFails ==
  [][\A exp \in UnknownSubmissions : OnExperiences(exp) => FailedStep(exp)]_vars

C31_Witness ==
  /\ last.op = "on_experiences"
  /\ last.err
  /\ "p" \in Updatable(policy_dict)
  /\ mem["p"] = 1
  /\ new_exp_counter["p"] = 1
  /\ ShouldUpdate("p", update_trigger, mem, new_exp_counter)
  /\ updated_policy_ids = {}

\* what get_state leaves alone, and what on_experiences keeps in the set
UpdatedSetFrame ==
  /\ GetState =>
       /\ mem' = mem
       /\ new_exp_counter' = new_exp_counter
       /\ update_trigger' = update_trigger
       /\ names' = names
       /\ policy_dict' = policy_dict
       /\ last'.op = "get_state"
       /\ updated_policy_ids' = {}
  /\ (\E exp \in Submissions : OnExperiences(exp)) =>
       updated_policy_ids \subseteq updated_policy_ids'

\* C32: get_state changes only the set of updated policies: it updates no
\* policy and leaves the buffers, the counters of new experiences, the
\* triggers and the name list as they were; on_experiences never removes an
\* identifier from the set, so updates of several calls accumulate until the
\* next get_state.
C32_UpdatedSetFrame == [][UpdatedSetFrame]_vars

C32_Witness ==
  /\ last.op = "on_experiences"
  /\ last.ids = {"q"}
  /\ updated_policy_ids = {"p", "q"}

\* the eval_schedule arguments the claim is about: None, an integer >= 1, a list
ScheduleAccepted == ~(a_pc = "crashed" /\ ScheduleFails(eval_schedule))

\* the cursor is an index of the built schedule at each end-of-episode check,
\* the lookup never fails, and the cursor moves up by one with an evaluation
CursorStep ==
  /\ (a_pc' = "ep_end" /\ ScheduleAccepted') =>
       eval_point_index' \in 0..(Len(eval_schedule'.l) - 1)
  /\ ScheduleAccepted' => a_pc' # "crashed"
  /\ a_pc # "idle" =>
       /\ eval_point_index' \in {eval_point_index, eval_point_index + 1}
       /\ eval_point_index' = eval_point_index + 1 <=>
            (a_pc = "ep_end" /\ a_pc' = "eval")

\* C33: for eval_schedule None, an integer >= 1 or a list of integers and any
\* num_episodes >= 1, eval_point_index is a valid index of the built schedule
\* at every end-of-episode check, so the lookup never fails, and it only ever
\* increases, by one for each evaluation.
C33_CursorInBounds == [][CursorStep]_vars

C33_Witness ==
  /\ a_pc = "ep_end"
  /\ ep = num_episodes
  /\ Len(eval_schedule.l) = 2
  /\ eval_point_index = 1
  /\ hist.evals = 1

\* ------------------------------------------------------- the local job manager
\* job_manager.py: one scheduling loop starts PENDING jobs, one monitor thread
\* per started job follows its processes; redis is shared with the command
\* line, which adds jobs and marks them REMOVED.
MaxRunning == 2

others == <<pmVars, thr, actorVars, calls>>

Max0(n) == IF n > 0 THEN n ELSE 0
Smaller(a, b) == IF a <= b THEN a ELSE b

\* the jobs with a status in the hash
WithStatus(d, st) == { j \in Jobs : d[j].status = st }

\* the orders in which hgetall may list a set of jobs
Orders(S) ==
  { o \in [1..Cardinality(S) -> S] : \A j \in S : \E i \in DOMAIN o : o[i] = j }

\* mutant: every pending job is started
ToStart_All(pending, maxrun, num) == pending

\* pending[:max(0, max_running - num_running)]
ToStart(pending, maxrun, num) ==
  SubSeq(pending, 1, Smaller(Len(pending), Max0(maxrun - num)))

InitJobs ==
  /\ ManagerIdle
  /\ ActorIdle
  /\ AksIdle
  /\ max_running \in 0..MaxRunning
  /\ containerized \in BOOLEAN
  /\ image \in (IF containerized THEN BOOLEAN ELSE {FALSE})
  /\ JOB_DETAILS = [j \in Jobs |-> NoEntry]
  /\ JOB_CONF = [j \in Jobs |-> FALSE]
  /\ started = [j \in Jobs |-> "unset"]
  /\ sched = BetweenPasses
  /\ mon = [j \in Jobs |-> NoMonitor]
  /\ removal = {}

settings == <<max_running, containerized>>

\* lines 63-73: hgetall, the count of RUNNING jobs, the PENDING jobs to start
Snapshot ==
  /\ sched.pc = "sleep"
  /\ \E pending \in Orders(WithStatus(JOB_DETAILS, "PENDING")) :
       LET num == Cardinality(WithStatus(JOB_DETAILS, "RUNNING"))
       IN sched' = [pc |-> "start", num_running |-> num, pending |-> pending,
                    todo |-> ToStart(pending, max_running, num), launched |-> 0]
  /\ UNCHANGED <<others, aksVars, settings, image, JOB_DETAILS, JOB_CONF, started, mon,
                 removal>>

\* lines 74-77: the status IMAGE_BUILDING, written before the image is built
MarkImageBuilding ==
  /\ sched.pc = "start"
  /\ sched.todo # <<>>
  /\ containerized /\ ~image
  /\ JOB_DETAILS' = [JOB_DETAILS EXCEPT ![Head(sched.todo)] =
                       [status |-> "IMAGE_BUILDING", error_message |-> "none"]]
  /\ sched' = [sched EXCEPT !.pc = "build"]
  /\ UNCHANGED <<others, aksVars, settings, image, JOB_CONF, started, mon, removal>>

\* lines 78-88: the image is built if it was missing, the job's processes are
\* started, RUNNING is written and the monitor thread is started
StartJob ==
  /\ \/ sched.pc = "build"
     \/ sched.pc = "start" /\ sched.todo # <<>> /\ ~(containerized /\ ~image)
  /\ LET job_name == Head(sched.todo)
     IN /\ image' = (image \/ sched.pc = "build")
        /\ started' = [started EXCEPT ![job_name] = "alive"]
        /\ JOB_DETAILS' = [JOB_DETAILS EXCEPT ![job_name] =
                             [status |-> "RUNNING", error_message |-> "none"]]
        /\ mon' = [mon EXCEPT ![job_name] = [NoMonitor EXCEPT !.pc = "poll", !.running = TRUE]]
  /\ sched' = [sched EXCEPT !.pc = "start", !.todo = Tail(@), !.launched = @ + 1]
  /\ UNCHANGED <<others, aksVars, settings, JOB_CONF, removal>>

\* line 90: the pass is over
EndPass ==
  /\ sched.pc = "start"
  /\ sched.todo = <<>>
  /\ sched' = BetweenPasses
  /\ UNCHANGED <<others, aksVars, settings, image, JOB_DETAILS, JOB_CONF, started, mon,
                 removal>>

\* lines 27-28: poll(running) on the job's processes
Poll(j) ==
  /\ mon[j].pc = "poll"
  /\ started[j] \in {"alive", "exited", "failed"}
  /\ mon' = [mon EXCEPT ![j] = [@ EXCEPT !.pc = "read",
                                         !.error = (started[j] = "failed"),
                                         !.err_out = IF started[j] = "failed" THEN "boom"
                                                     ELSE "none",
                                         !.running = (started[j] = "alive")]]
  /\ UNCHANGED <<others, aksVars, settings, image, JOB_DETAILS, JOB_CONF, started, sched,
                 removal>>

\* where the monitor goes after it read the details (lines 31-38, 44, 49)
AfterRead(m, st) ==
  IF st = "REMOVED" THEN "term_removed"
  ELSE IF m.error THEN "term_error"
  ELSE IF m.running THEN "poll"
  ELSE "write_finished"

\* lines 30-36: the details are read; REMOVED or an error ends the loop
ReadDetails(j) ==
  /\ mon[j].pc = "read"
  /\ mon' = [mon EXCEPT ![j] = [@ EXCEPT !.details = JOB_DETAILS[j],
                                         !.pc = AfterRead(mon[j], JOB_DETAILS[j].status)]]
  /\ UNCHANGED <<others, aksVars, settings, image, JOB_DETAILS, JOB_CONF, started, sched,
                 removal>>

\* term(started[job_name], ...), and where the monitor goes next
Term(j, then) ==
  /\ started' = [started EXCEPT ![j] = "killed"]
  /\ mon' = [mon EXCEPT ![j] = [@ EXCEPT !.pc = then]]
  /\ UNCHANGED <<others, aksVars, settings, image, JOB_DETAILS, JOB_CONF, sched, removal>>

\* hdel of JOB_DETAILS and of JOB_CONF, and where the monitor goes next
Delete(j, then) ==
  /\ JOB_DETAILS' = [JOB_DETAILS EXCEPT ![j] = NoEntry]
  /\ JOB_CONF' = [JOB_CONF EXCEPT ![j] = FALSE]
  /\ mon' = [mon EXCEPT ![j] = [@ EXCEPT !.pc = then]]
  /\ UNCHANGED <<others, aksVars, settings, image, started, sched, removal>>

\* the details read at line 30 written back with another status
WriteStatus(j, st, msg) ==
  /\ JOB_DETAILS' = [JOB_DETAILS EXCEPT ![j] =
                       [mon[j].details EXCEPT !.status = st, !.error_message = msg]]
  /\ mon' = [mon EXCEPT ![j] = [@ EXCEPT !.pc = "wait"]]
  /\ UNCHANGED <<others, aksVars, settings, image, JOB_CONF, started, sched, removal>>

\* line 39: the job was marked REMOVED while it ran
TermRemoved(j) ==
  /\ mon[j].pc = "term_removed"
  /\ Term(j, "del_removed")

\* lines 40-42
DeleteRemoved(j) ==
  /\ mon[j].pc = "del_removed"
  /\ Delete(j, "done")

\* line 45: a process failed
TermError(j) ==
  /\ mon[j].pc = "term_error"
  /\ Term(j, "write_error")

\* lines 46-48
WriteError(j) ==
  /\ mon[j].pc = "write_error"
  /\ WriteStatus(j, "ERROR", mon[j].err_out)

\* lines 50-51: all processes ended normally
WriteFinished(j) ==
  /\ mon[j].pc = "write_finished"
  /\ WriteStatus(j, "FINISHED", mon[j].details.error_message)

\* lines 54-55: the monitor sleeps until it reads REMOVED
Wait(j) ==
  /\ mon[j].pc = "wait"
  /\ JOB_DETAILS[j].status = "REMOVED"
  /\ mon' = [mon EXCEPT ![j] = [@ EXCEPT !.pc = "term_final"]]
  /\ UNCHANGED <<others, aksVars, settings, image, JOB_DETAILS, JOB_CONF, started, sched,
                 removal>>

\* line 57
TermFinal(j) ==
  /\ mon[j].pc = "term_final"
  /\ Term(j, "del_final")

\* lines 58-59
DeleteFinal(j) ==
  /\ mon[j].pc = "del_final"
  /\ Delete(j, "done")

\* the command line adds a job: PENDING details and a configuration
SubmitJob(j) ==
  /\ JOB_DETAILS[j] = NoEntry
  /\ started[j] = "unset"
  /\ JOB_DETAILS' = [JOB_DETAILS EXCEPT ![j] = [status |-> "PENDING", error_message |-> "none"]]
  /\ JOB_CONF' = [JOB_CONF EXCEPT ![j] = TRUE]
  /\ UNCHANGED <<others, aksVars, settings, image, started, sched, mon, removal>>

\* the command line marks a started job REMOVED
RemoveJob(j) ==
  /\ JOB_DETAILS[j].status \in {"RUNNING", "FINISHED", "ERROR"}
  /\ JOB_DETAILS' = [JOB_DETAILS EXCEPT ![j] = [@ EXCEPT !.status = "REMOVED"]]
  /\ removal' = removal \cup {j}
  /\ UNCHANGED <<others, aksVars, settings, image, JOB_CONF, started, sched, mon>>

\* the job's processes all end normally
ProcessExits(j) ==
  /\ started[j] = "alive"
  /\ started' = [started EXCEPT ![j] = "exited"]
  /\ UNCHANGED <<others, aksVars, settings, image, JOB_DETAILS, JOB_CONF, sched, mon, removal>>

\* one of the job's processes fails
ProcessFails(j) ==
  /\ started[j] = "alive"
  /\ started' = [started EXCEPT ![j] = "failed"]
  /\ UNCHANGED <<others, aksVars, settings, image, JOB_DETAILS, JOB_CONF, sched, mon, removal>>

SchedulerStep == Snapshot \/ MarkImageBuilding \/ StartJob \/ EndPass

MonitorStep(j) ==
  \/ Poll(j) \/ ReadDetails(j)
  \/ TermRemoved(j) \/ DeleteRemoved(j)
  \/ TermError(j) \/ WriteError(j) \/ WriteFinished(j)
  \/ Wait(j) \/ TermFinal(j) \/ DeleteFinal(j)

OutsideStep(j) == SubmitJob(j) \/ RemoveJob(j) \/ ProcessExits(j) \/ ProcessFails(j)

NextJobs == SchedulerStep \/ \E j \in Jobs : MonitorStep(j) \/ OutsideStep(j)

SpecJobs == InitJobs /\ [][NextJobs]_vars

\* the scheduling loop and every monitor thread keep running
SpecJobsFair ==
  SpecJobs /\ WF_vars(SchedulerStep) /\ \A j \in Jobs : WF_vars(MonitorStep(j))

\* the status of a job in the hash
StatusOf(j) == JOB_DETAILS[j].status

\* the jobs a pass has still to start are PENDING and were never started; the
\* one whose image is being built carries IMAGE_BUILDING
OnlyPendingStarted ==
  \A i \in 1..Len(sched.todo) :
    /\ started[sched.todo[i]] = "unset"
    /\ \E k \in 1..Len(sched.pending) : sched.pending[k] = sched.todo[i]
    /\ StatusOf(sched.todo[i]) =
         (IF i = 1 /\ sched.pc = "build" THEN "IMAGE_BUILDING" ELSE "PENDING")

\* C34: as long as only the job manager writes RUNNING, the number of RUNNING
\* jobs never exceeds MAXRUNNING, however the scheduling loop and the monitor
\* threads interleave; a pass starts at most max(0, MAXRUNNING - RUNNING jobs)
\* jobs, and only PENDING jobs are started.
C34_AdmissionBound ==
  /\ Cardinality(WithStatus(JOB_DETAILS, "RUNNING")) <= max_running
  /\ sched.launched + Len(sched.todo) <= Max0(max_running - sched.num_running)
  /\ sched.launched + Len(sched.todo) <= Len(sched.pending)
  /\ OnlyPendingStarted

C34_Witness ==
  /\ max_running = 1
  /\ sched.pc = "start"
  /\ sched.launched = 1
  /\ Len(sched.pending) = 2
  /\ StatusOf(sched.pending[1]) = "RUNNING"
  /\ StatusOf(sched.pending[2]) = "PENDING"

\* the job's processes are terminated and both of its redis entries are gone
Removed(j) ==
  /\ started[j] = "killed"
  /\ JOB_DETAILS[j] = NoEntry
  /\ ~JOB_CONF[j]

\* C35: a started job that is marked REMOVED, while it runs or after it
\* finished or failed, is eventually terminated by its monitor thread and
\* loses its JOB_DETAILS and JOB_CONF entries, however the REMOVED write
\* interleaves with the monitor's polling and status writes.
C35_RemovalHonoured == \A j \in Jobs : (j \in removal) ~> Removed(j)

\* the status changes the job manager may write, and those of the command line
ManagerWrites ==
  { <<"PENDING", "IMAGE_BUILDING">>, <<"PENDING", "RUNNING">>,
    <<"IMAGE_BUILDING", "RUNNING">>, <<"RUNNING", "FINISHED">>, <<"RUNNING", "ERROR">>,
    <<"REMOVED", "NONE">> }

CommandLineWrites ==
  { <<"NONE", "PENDING">>, <<"RUNNING", "REMOVED">>, <<"FINISHED", "REMOVED">>,
    <<"ERROR", "REMOVED">> }

StatusStep ==
  \A j \in Jobs :
    StatusOf(j)' # StatusOf(j) =>
      /\ <<StatusOf(j), StatusOf(j)'>> \in ManagerWrites \cup CommandLineWrites
      /\ StatusOf(j)' = "FINISHED" => started[j] = "exited"
      /\ StatusOf(j)' = "ERROR" =>
           started[j] = "killed" /\ JOB_DETAILS'[j].error_message = "boom"
      /\ StatusOf(j) = "REMOVED" => StatusOf(j)' = "NONE"

\* C36: the statuses the job manager writes follow PENDING -> (IMAGE_BUILDING
\* ->) RUNNING -> FINISHED or ERROR: FINISHED for a job whose processes all
\* ended normally, ERROR with the error message for a job with a failed
\* process, which is terminated; a REMOVED status is never overwritten with
\* RUNNING, FINISHED or ERROR.
C36_StatusTransitions == [][StatusStep]_vars

\* ------------------------------------------------------ K8sAksExecutor.create
\* create() builds the cluster details, runs seven steps inside one try and, if
\* one of them raises, removes the cluster's folder and raises.  A step is a
\* call into Azure, kubectl or the file system: it either returns or raises.
InitAks ==
  /\ ManagerIdle
  /\ ActorIdle
  /\ JobsIdle
  /\ clusters \in [ClusterNames -> {"absent", "present"}]
  /\ deployment \in [name : ClusterNames, valid : BOOLEAN]
  /\ k_pc = [at |-> "build", failed |-> "none"]
  /\ raised = "none"
  /\ before = clusters

\* the folder ABS_MARO_CLUSTERS/cluster_name
Folder == clusters[deployment.name]

\* lines 46-49 and 70-80: the deployment is validated and filled; a cluster
\* whose folder exists is refused
BuildClusterDetails ==
  /\ k_pc.at = "build"
  /\ IF ~deployment.valid
       THEN raised' = "DeploymentError" /\ k_pc' = [k_pc EXCEPT !.at = "raised"]
       ELSE IF Folder # "absent"
         THEN raised' = "BadRequestError" /\ k_pc' = [k_pc EXCEPT !.at = "raised"]
         ELSE raised' = raised /\ k_pc' = [k_pc EXCEPT !.at = "resource_group"]
  /\ UNCHANGED <<others, jmVars, clusters, deployment, before>>

\* a step that leaves the folder alone: it returns and the next step follows,
\* or it raises and the handler follows
Attempt(step, next) ==
  /\ \E ok \in BOOLEAN :
       k_pc' = IF ok THEN [k_pc EXCEPT !.at = next]
               ELSE [at |-> "except", failed |-> step]
  /\ UNCHANGED <<others, jmVars, clusters, deployment, raised, before>>

\* line 54: Azure calls only
CreateResourceGroup ==
  /\ k_pc.at = "resource_group"
  /\ Attempt("resource_group", "k8s_cluster")

\* line 55: _create_deployment_parameters makes the folder (line 163), then the
\* deployment is started and the registry attached
CreateK8sCluster ==
  /\ k_pc.at = "k8s_cluster"
  /\ \E ok \in BOOLEAN, made \in BOOLEAN :
       /\ clusters' = [clusters EXCEPT ![deployment.name] =
                         IF ok \/ made THEN "parameters" ELSE @]
       /\ k_pc' = IF ok THEN [k_pc EXCEPT !.at = "context"]
                  ELSE [at |-> "except", failed |-> "k8s_cluster"]
  /\ UNCHANGED <<others, jmVars, deployment, raised, before>>

\* line 56
LoadK8sContext ==
  /\ k_pc.at = "context"
  /\ Attempt("context", "redis")

\* line 57
InitRedis ==
  /\ k_pc.at = "redis"
  /\ Attempt("redis", "nvidia_plugin")

\* line 58
InitNvidiaPlugin ==
  /\ k_pc.at = "nvidia_plugin"
  /\ Attempt("nvidia_plugin", "secret")

\* line 59
CreateK8sSecret ==
  /\ k_pc.at = "secret"
  /\ Attempt("secret", "save")

\* line 60: the details are written into the folder
SaveClusterDetails ==
  /\ k_pc.at = "save"
  /\ \E ok \in BOOLEAN :
       /\ clusters' = [clusters EXCEPT ![deployment.name] = IF ok THEN "saved" ELSE @]
       /\ k_pc' = IF ok THEN [k_pc EXCEPT !.at = "created"]
                  ELSE [at |-> "except", failed |-> "save"]
  /\ UNCHANGED <<others, jmVars, deployment, raised, before>>

\* lines 61-65: shutil.rmtree raises FileNotFoundError for a folder that is not
\* there, and then raise e is not reached; otherwise the folder goes and the
\* step's exception is raised
Handler ==
  /\ k_pc.at = "except"
  /\ IF Folder = "absent"
       THEN raised' = "FileNotFoundError" /\ clusters' = clusters
       ELSE /\ raised' = k_pc.failed
            /\ clusters' = [clusters EXCEPT ![deployment.name] = "absent"]
  /\ k_pc' = [k_pc EXCEPT !.at = "raised"]
  /\ UNCHANGED <<others, jmVars, deployment, before>>

NextAks ==
  \/ BuildClusterDetails
  \/ CreateResourceGroup \/ CreateK8sCluster \/ LoadK8sContext \/ InitRedis
  \/ InitNvidiaPlugin \/ CreateK8sSecret \/ SaveClusterDetails
  \/ Handler

SpecAks == InitAks /\ [][NextAks]_vars

\* C37: if a step of create() after the cluster details were built fails
\* (resource group, k8s cluster, context, redis, nvidia plugin, secret, saving
\* the details), the cluster's folder does not exist afterwards and the
\* exception raised to the caller is that of the failing step; if the details
\* cannot be built because the folder already exists, the folders are left as
\* they were.
C37_CreateCleanup ==
  /\ (k_pc.at = "raised" /\ k_pc.failed # "none") =>
       /\ Folder = "absent"
       /\ raised = k_pc.failed
  /\ raised = "BadRequestError" => clusters = before

====
